---- MODULE Spec2Model ----
(***************************************************************************)
(* Ethash-R5 CPU miner of r5-core: the mining coordinator of               *)
(* src/r5miner/main.py (main and the miner_worker loop) and the older      *)
(* client miner src/client/r5miner/r5miner.py, against a node that serves  *)
(* eth_getWork, eth_blockNumber and eth_submitWork.                        *)
(*                                                                         *)
(* One step of a worker is the code between two RPC calls, the call        *)
(* included: the node's height can change between any two calls.           *)
(* Hash values, seeds and digests are abstract small integers: a seed is   *)
(* named by its epoch, a cache by the seed and block it was built from.    *)
(***************************************************************************)
EXTENDS Integers, Sequences, FiniteSets, TLC

(* ------------------------------ bounds ------------------------------ *)
MaxWorkers == 2      \* cpu_threads ranges over 1..MaxWorkers
MaxNonce   == 4      \* max_nonce, scaled down from 2**64 - 1
MaxAbove   == 1      \* heights reach EPOCH_LENGTH + MaxAbove
MaxHeaders == 1      \* distinct header hashes the node hands out
HashSpace  == 2      \* final hashes are 0..HashSpace-1, targets 0..HashSpace
ByteBits   == 2      \* bits of a byte in the library model (8 in the source)
MaxRows    == 3      \* a cache has 1..MaxRows rows of HASH_BYTES bytes
MaxSeedEpochs == 6   \* seed_hash is called for heights of the epochs 0..MaxSeedEpochs
MaxParents == 2      \* passes of the parent loop of a dataset item (DATASET_PARENTS
                     \* = 256 in the source)

(* ------------------------- program constants ------------------------ *)
EPOCH_LENGTH == 30000
CACHE_INIT_BYTES == 16777216      \* 1 << 24
CACHE_GROWTH_BYTES == 131072      \* 1 << 17
HASH_BYTES == 64
MAX_EPOCH == 2048
DATASET_SIZES ==
  << 1073739904, 1082130304, 1090514816, 1098906752, 1107293056,
     1115684224, 1124070016, 1132461952, 1140849536, 1149232768 >>
KECCAK256_BYTES == 32             \* keccak.new(digest_bits=256)
FNV_PRIME == 16777619             \* 0x01000193
HASH_WORDS == 16
CACHE_ROUNDS == 3                 \* for r in range(3)
MIX_BYTES == 128
LOOP_ACCESSES == 64
EXTRA_ROUNDS == 4
CACHE_SIZES ==
  << 16776896, 16907456, 17039296, 17170112, 17301056,
     17432512, 17563072, 17693888, 17824192, 17955904 >>

MinHeight == EPOCH_LENGTH - 1
MaxHeight == EPOCH_LENGTH + MaxAbove
Heights   == MinHeight..MaxHeight
Headers   == 1..MaxHeaders
Targets   == 0..HashSpace

None      == <<>>
Some(x)   == <<x>>

VARIABLES
  chain,            \* the node's current block height
  nodeWork,         \* None, or Some(<<header, target>>) of a steady node (see WorkReplies)
  program,          \* "main" (src/r5miner/main.py) or "client" (src/client/r5miner/r5miner.py)
  cpu_count,        \* os.cpu_count()
  mainPc,           \* main(): "GetWork", "Spawn", "Join", "Exited"
  exit_status,      \* status of sys.exit, None while main runs
  cpu_threads,      \* number of workers: cpu_threads of miner.ini, -cpu of the client
  spawned,          \* number of worker processes main has started
  pc,               \* per worker: position in miner_worker
  work,             \* per worker: (pow_hash_str, seed_hash_str, target)
  current_block,    \* per worker: height read after get_work
  last_epoch,       \* per worker: None or Some(epoch)
  cached_cache,     \* per worker: None or Some(cache)
  cache,            \* per worker: the cache the search uses
  nonce,            \* per worker: nonce counter
  solution_found,   \* per worker
  due,              \* per worker: time.time() - last_check >= 5
  lastRpc,          \* history: the worker's latest RPC call and its outcome
  evalSince,        \* history: a nonce was evaluated since the latest RPC call
  visited,          \* history: nonces evaluated for the current work unit
  evalAgain,        \* history: some nonce was evaluated twice for one work unit
  resolved,         \* history: what the latest cache resolution did
  submits,          \* history: submit_work calls made for the latest found solution
  initial_work,     \* history: "none", or whether main's initial get_work got a usable reply
  issued_at,        \* history, per worker: the chain height when get_work
                    \* returned the work unit; NotFollowed where the
                    \* specification keeps no such history
  last_submit,      \* history, per worker: None or Some(<<header, nonce>>) of
                    \* the latest submit_work call (kept with issued_at)
  lib               \* ethash_r5: the call under way (its arguments, locals and
                    \* reads), NoCall while the miners are what is followed

envVars  == <<chain, nodeWork>>
mainVars == <<program, cpu_count, mainPc, exit_status, cpu_threads, spawned>>
progVars == <<pc, work, current_block, last_epoch, cached_cache, cache, nonce,
              solution_found, due>>
histVars == <<lastRpc, evalSince, visited, evalAgain, resolved, submits,
              initial_work, issued_at, last_submit>>
libVars  == <<lib>>
vars     == <<envVars, mainVars, progVars, histVars, libVars>>

Tracked == DOMAIN pc

(* ----------------------------- the node ----------------------------- *)
\* The seed hash the node sends: the seed of the epoch of the pending block,
\* named by the number of keccak256 iterations that produce it.
NodeSeed(height) == (height + 1) \div EPOCH_LENGTH

\* The miner takes the seed as it is sent and never calls seed_hash: an
\* arbitrary node may send the seed that goes with its head block or the one
\* that goes with the pending block.
NodeSeeds(height) == {height \div EPOCH_LENGTH, NodeSeed(height)}

\* Replies to eth_getWork as json_rpc_request returns them: None on a
\* transport or RPC error, else the "result" array. A field that is not a
\* hex string is -1.
WorkResults(height) ==
  LET full == {<<h, sd, t>> : h \in Headers, sd \in NodeSeeds(height), t \in Targets}
  IN  {<<>>, <<1>>, <<1, NodeSeed(height)>>, <<1, NodeSeed(height), -1>>}
        \cup full

\* A steady node (steady = Some(<<header, target>>)) answers every call and
\* hands out that one work unit. Otherwise (steady = None) any call may fail
\* (json_rpc_request returns None), and the pending block, the difficulty and
\* the reply's shape may differ from call to call.
WorkReplies(height, steady) ==
  IF steady = None
    THEN {None} \cup {Some(r) : r \in WorkResults(height)}
    ELSE {Some(<<steady[1][1], NodeSeed(height), steady[1][2]>>)}

\* A reply to eth_getWork that carries a whole work unit.
Usable(reply) == reply # None /\ Len(reply[1]) >= 3 /\ reply[1][3] >= 0

\* Replies to eth_blockNumber: None on error, else the height.
HeightReplies(height, steady) ==
  IF steady = None THEN {None, Some(height)} ELSE {Some(height)}

\* Replies to eth_submitWork: None on error, else the node's verdict.
SubmitReplies(steady) ==
  IF steady = None THEN {None, Some(TRUE), Some(FALSE)} ELSE {Some(TRUE), Some(FALSE)}

(* --------------------- src/r5miner/main.py helpers ------------------ *)
\* get_work: raises on None, on an empty result, on fewer than 3 elements,
\* and when int(result[2], 16) cannot parse the target.
GetWorkRaises(reply) ==
  \/ reply = None
  \/ Len(reply[1]) = 0
  \/ Len(reply[1]) < 3
  \/ reply[1][3] < 0

\* get_work's return value (result[0], result[1], int(result[2], 16)).
GetWorkValue(reply) == <<reply[1][1], reply[1][2], reply[1][3]>>

\* get_block_number raises when json_rpc_request returned nothing.
GetBlockNumberRaises(reply) == reply = None

\* submit_work: bool(result); a failed call (None) counts as a rejection.
SubmitWorkValue(reply) == reply # None /\ reply[1]

\* Mutant: a rejected or failed submission is sent again.
AfterSubmitRetry(accepted) == IF accepted THEN "Sleep2" ELSE "Submit"

\* lines 165-170: whatever submit_work returned is logged, solution_found is
\* set and the loop is left.
AfterSubmit(accepted) == "Sleep2"

\* Mutant: main logs the failure of the initial get_work and goes on.
MainAfterGetWorkGoesOn(raised) == "Spawn"

\* main, lines 195-200: sys.exit(1) when the initial get_work raised.
MainAfterGetWork(raised) == IF raised THEN "Exited" ELSE "Spawn"

\* Mutant: get_cache builds the cache of the epoch after the block's.
GetCacheOfNextEpoch(seed, block_number) ==
  [seed |-> seed, epoch |-> block_number \div EPOCH_LENGTH + 1]

\* get_cache(seed, block_number): the cache built from the seed with the size
\* of the block's epoch.
GetCache(seed, block_number) ==
  [seed |-> seed, epoch |-> block_number \div EPOCH_LENGTH]

\* dataset_size(block_number), named by the epoch that fixes it.
DatasetSize(block_number) == block_number \div EPOCH_LENGTH

\* The number of bytes dataset_size returns for the epoch that names ds.
DatasetBytes(ds) == DATASET_SIZES[ds + 1]

\* The dataset byte size hashimoto_light(ds, cache, header, nonce) works with:
\* the one it is handed.
MainLightSize(ds, c) == DatasetBytes(ds)

\* hashimoto_light(ds, cache, header, nonce): a deterministic function of its
\* four arguments; <<mix_digest, final_hash>>.
HashimotoLight(ds, c, header, n) ==
  << (2 * header + n + c.seed) % HashSpace,
     (header + n + c.seed + c.epoch + ds) % HashSpace >>

\* Mutant: the cache is generated for every work unit.
NeedsBuildAlways(work_epoch, last) == TRUE

\* line 131: the cache is generated only if a new epoch has been reached.
NeedsBuild(work_epoch, last) == Some(work_epoch) # last

\* Mutant: a height check that never finds the block advanced.
AdvancedNever(current_height, block) == FALSE

\* Mutant: a height check that tolerates one block of advance.
AdvancedLate(current_height, block) == current_height > block + 1

\* lines 151 and 162: the block has advanced past the work unit's height.
Advanced(current_height, block) == current_height > block

\* Mutant: a hash equal to the target counts as a solution.
IsSolutionInclusive(final_hash, target) == final_hash <= target

\* line 157: int.from_bytes(final_hash, "big") < target.
IsSolution(final_hash, target) == final_hash < target

\* Mutant: a found solution goes straight to submit_work.
AfterFoundDirect == "Submit"

\* lines 157-161: a found solution leads to the height check before submission.
AfterFound == "PreSubmit"

\* Mutant: the stride is one nonce, whatever the number of workers.
NextNonceUnit(n, total_workers) == n + 1

\* line 171: nonce += total_workers.
NextNonce(n, total_workers) == n + total_workers

\* line 147: while nonce < max_nonce.
InRange(n) == n < MaxNonce

\* Mutant: the clock is not read at the head of the search loop.
PollDueNever(expired) == FALSE

\* line 149: time.time() - last_check >= 5; `expired` says whether 5 seconds
\* have passed since last_check.
PollDue(expired) == expired

\* Mutant: the except clause lacks its time.sleep(5).
AfterExceptionNoSleep == "Sleep2"

\* Mutant: an exception ends the worker process.
AfterExceptionCrash == "Crashed"

\* the except clause of the loop body (lines 175-177), then line 178.
AfterException == "Sleep5"
\* Mutant: the worker function returns when the search loop ends.
AfterSearchReturn == "Returned"

\* leaving the search loop by break or exhaustion: lines 173-174, then 178.
AfterSearch == "Sleep2"
\* the while True loop: after the sleeps the body starts again at get_work.
LoopStart == "FetchWork"

(* ------------- src/client/r5miner/ethash_r5.py ------------------------ *)
\* Bytes and 4-byte words. The source's bytes have 8 bits and its words 32;
\* here a byte has ByteBits bits and a word is still 4 bytes, so that word
\* arithmetic stays within the range of TLC's integers.
ByteMod == 2 ^ ByteBits
WordMod == ByteMod ^ 4
Byte    == 0..(ByteMod - 1)

\* Python's s[a:b] for 0 <= a <= b, clamped at the end of s.
Slice(s, a, b) == SubSeq(s, a + 1, IF b < Len(s) THEN b ELSE Len(s))

\* Python's s[a:a+len(new)] = new on a bytearray, a + len(new) <= len(s).
SetSlice(s, a, new) ==
  [k \in 1..Len(s) |-> IF k > a /\ k <= a + Len(new) THEN new[k - a] ELSE s[k]]

\* a ^ b on non-negative integers.
RECURSIVE Xor(_, _)
Xor(a, b) ==
  IF a = 0 THEN b
  ELSE IF b = 0 THEN a
  ELSE 2 * Xor(a \div 2, b \div 2) + ((a + b) % 2)

\* int_to_le(n): n.to_bytes(4, byteorder="little"), 0 <= n < WordMod.
IntToLe(n) == [k \in 1..4 |-> (n \div (ByteMod ^ (k - 1))) % ByteMod]

\* le_to_int(b): int.from_bytes(b, byteorder="little").
RECURSIVE LeToInt(_)
LeToInt(b) ==
  IF Len(b) = 0 THEN 0 ELSE b[1] + ByteMod * LeToInt(Tail(b))

\* fnv(a, b): ((a * 0x01000193) & 0xffffffff) ^ b. The product is reduced
\* modulo the word size, so the prime is reduced first.
Fnv(a, b) == Xor((a * (FNV_PRIME % WordMod)) % WordMod, b)

\* The sponge of the keccak functions, as a stand-in: a running value over
\* the bytes data[lo..hi] of the input, each byte weighted by its position,
\* and output bytes derived from the value.
RECURSIVE Absorb(_, _, _)
Absorb(data, lo, hi) ==
  IF lo > hi THEN 0
  ELSE IF lo = hi THEN ((data[lo] + 1) * ((lo * lo + 3) % 251)) % 8191
  ELSE LET mid == (lo + hi) \div 2
       IN  (Absorb(data, lo, mid) + Absorb(data, mid + 1, hi)) % 8191

Squeeze(acc, k) == (((acc + k) * (acc + 3 * k + 1)) \div 5) % ByteMod

\* keccak_512(data): 64 bytes, a deterministic function of data.
Keccak512(data) ==
  LET acc == (Absorb(data, 1, Len(data)) + 512) % 8191
  IN  [k \in 1..HASH_BYTES |-> Squeeze(acc, k)]

\* keccak_256(data): 32 bytes, a deterministic function of data.
Keccak256(data) ==
  LET acc == (Absorb(data, 1, Len(data)) + 256) % 8191
  IN  [k \in 1..KECCAK256_BYTES |-> Squeeze(acc, k)]

\* Mutant: every row is hashed from the first row.
PrevRowFirst(cache_bytes, offset) == Slice(cache_bytes, 0, HASH_BYTES)

\* generate_cache, line 91: prev = cache_bytes[offset - HASH_BYTES: offset].
PrevRow(cache_bytes, offset) == Slice(cache_bytes, offset - HASH_BYTES, offset)

\* Mutant: the source row is the row after j.
SrcRowAfter(j, rows) == (j + 1) % rows

\* generate_cache, line 96: the row before j, the last row for j = 0.
SrcRow(j, rows) == (j - 1 + rows) % rows

\* generate_cache, lines 96-102: one row of one scramble round.
ScrambleRow(cache_bytes, rows, j) ==
  LET srcOff == SrcRow(j, rows) * HASH_BYTES
      dstOff == j * HASH_BYTES
      val    == LeToInt(Slice(cache_bytes, dstOff, dstOff + 4))
      xorOff == (val % rows) * HASH_BYTES
      block  == [k \in 1..HASH_BYTES |->
                   Xor(cache_bytes[srcOff + k], cache_bytes[xorOff + k])]
  IN  SetSlice(cache_bytes, dstOff, Keccak512(block))

\* generate_cache, lines 104-106: little-endian words of the cache bytes.
ToWords(bytes) ==
  [i \in 1..(Len(bytes) \div 4) |-> LeToInt(Slice(bytes, 4 * (i - 1), 4 * i))]
\* Mutant: the formula without its growth term.
CalcCacheSizeFlat(epoch) == CACHE_INIT_BYTES - HASH_BYTES

\* calc_cache_size(epoch).
CalcCacheSize(epoch) == CACHE_INIT_BYTES + CACHE_GROWTH_BYTES * epoch - HASH_BYTES

\* generate_cache, lines 83-86: the tabulated size, else the formula
\* (CACHE_SIZES[epoch] is 0-based in the source).
ChosenCacheSize(epoch) ==
  IF epoch < Len(CACHE_SIZES) THEN CACHE_SIZES[epoch + 1] ELSE CalcCacheSize(epoch)

\* b"".join(int_to_le(w) for w in words).
WordsToBytes(words) ==
  [k \in 1..(4 * Len(words)) |-> IntToLe(words[((k - 1) \div 4) + 1])[((k - 1) % 4) + 1]]

\* generate_dataset_item, line 114: rows = len(cache) // HASH_WORDS.
ItemRows(cache_list) == Len(cache_list) \div HASH_WORDS

\* Mutant: the index is not reduced modulo the row count.
ItemBaseRaw(index, rows) == index * HASH_WORDS

\* line 116: base = (index % rows) * HASH_WORDS.
ItemBase(index, rows) == (index % rows) * HASH_WORDS

\* The 0-based positions off .. off + HASH_WORDS - 1 of a row read.
RowPositions(off) == off..(off + HASH_WORDS - 1)

\* The 16 words at off (cache[base + i], cache[off:off+HASH_WORDS]), all of
\* them inside the cache.
RowWords(cache_list, off) == SubSeq(cache_list, off + 1, off + HASH_WORDS)

\* lines 117-122: the first row xored with the index, hashed, as 16 words.
FirstMix(cache_list, index) ==
  LET row   == RowWords(cache_list, ItemBase(index, ItemRows(cache_list)))
      first == Xor(row[1], index)
      mix   == WordsToBytes([k \in 1..HASH_WORDS |-> IF k = 1 THEN first ELSE row[k]])
  IN  ToWords(Keccak512(mix))

\* line 124: parent = fnv(index ^ i, mix_int[i % 16]) % rows.
ParentOf(index, i, mix_int, rows) ==
  Fnv(Xor(index, i), mix_int[(i % 16) + 1]) % rows

\* lines 125-127: the parent's row mixed into mix_int.
ParentStep(cache_list, index, i, mix_int) ==
  LET parent_offset == ParentOf(index, i, mix_int, ItemRows(cache_list)) * HASH_WORDS
      parent_words  == RowWords(cache_list, parent_offset)
  IN  [k \in 1..HASH_WORDS |-> Fnv(mix_int[k], parent_words[k])]

\* lines 123-127: the passes i, i + 1, ... of the parent loop.
RECURSIVE ParentLoop(_, _, _, _)
ParentLoop(cache_list, index, i, mix_int) ==
  IF i >= MaxParents THEN mix_int
  ELSE ParentLoop(cache_list, index, i + 1, ParentStep(cache_list, index, i, mix_int))

\* generate_dataset_item(cache, index): 64 bytes.
GenerateDatasetItem(cache_list, index) ==
  Keccak512(WordsToBytes(ParentLoop(cache_list, index, 0, FirstMix(cache_list, index))))

\* Mutant: the row count of hashimoto counts 64-byte items, not 128-byte
\* pages.
HashimotoRowsOfItems(size) == size \div HASH_BYTES

\* hashimoto, line 143: rows = size // MIX_BYTES.
HashimotoRows(size) == size \div MIX_BYTES

\* line 145-146: keccak_512(header + nonce.to_bytes(8, "little")).
HashimotoSeed(header, n) ==
  Keccak512(header \o [k \in 1..8 |-> (n \div (ByteMod ^ (k - 1))) % ByteMod])

\* lines 148-151: the 32 words of mix, the 16 words of the seed twice.
InitialMix(seed) ==
  [i \in 1..(MIX_BYTES \div 4) |->
     LeToInt(Slice(seed, ((i - 1) % 16) * 4, ((i - 1) % 16) * 4 + 4))]

\* line 153: parent = fnv(i ^ seed_head, mix[i % len(mix)]) % rows.
AccessParent(i, seed_head, mix, rows) ==
  Fnv(Xor(i, seed_head), mix[(i % Len(mix)) + 1]) % rows

\* Mutant: pages counted from 1, so that the last page lies past the dataset.
LookupIndexFromOne(parent, j) == 2 * (parent + 1) + j

\* line 156: the index handed to lookup for chunk j of the page.
LookupIndex(parent, j) == 2 * parent + j

\* lines 155-159: the two items of the page copied into temp, then
\* fnv_hash(mix, temp). items[j + 1] is what lookup returned for chunk j.
MixPage(mix, items) ==
  [i \in 1..Len(mix) |->
     Fnv(mix[i], items[((i - 1) \div HASH_WORDS) + 1][((i - 1) % HASH_WORDS) + 1])]

\* lines 161-164: four words of mix to one of digest.
Collapse(mix) ==
  WordsToBytes([c \in 1..(Len(mix) \div 4) |->
     Fnv(Fnv(Fnv(mix[4 * c - 3], mix[4 * c - 2]), mix[4 * c - 1]), mix[4 * c])])

\* lines 166-171: one extra round: every word mixed with a word of the seed,
\* then keccak_256.
ExtraRound(extra, seed) ==
  LET words == ToWords(extra)
      seed_word(w) == LeToInt(Slice(seed, ((w - 1) % 10) * 4, ((w - 1) % 10) * 4 + 4))
  IN  Keccak256(WordsToBytes([w \in 1..Len(words) |-> Fnv(words[w], seed_word(w))]))

RECURSIVE ExtraRounds(_, _, _)
ExtraRounds(extra, seed, left) ==
  IF left = 0 THEN extra ELSE ExtraRounds(ExtraRound(extra, seed), seed, left - 1)

\* lines 160-175: <<final_digest, final_hash>> from the mix after the
\* accesses.
HashimotoResult(mix, seed) ==
  LET final_digest == ExtraRounds(Collapse(mix), seed, EXTRA_ROUNDS)
  IN  <<final_digest, Keccak256(seed \o final_digest)>>

\* hashimoto_light, line 182: size = len(cache) * 4.
LightSize(cache_list) == Len(cache_list) * 4

\* hashimoto_light, lines 183-185: lookup computes the item from the cache
\* and returns its 16 words.
LightLookup(cache_list, index) == Some(ToWords(GenerateDatasetItem(cache_list, index)))

\* The materialised dataset of `size` bytes: item i, from 0, is
\* generate_dataset_item(cache, i).
Dataset(cache_list, size) ==
  [i \in 1..(size \div HASH_BYTES) |-> GenerateDatasetItem(cache_list, i - 1)]

\* A lookup into the materialised dataset: the 16 words of item index, or
\* None where the dataset has no such item (an IndexError).
FullLookup(dataset, index) ==
  IF index < Len(dataset) THEN Some(ToWords(dataset[index + 1])) ELSE None

\* seed_hash, line 193: seed = bytes(32).
ZeroSeed == [k \in 1..KECCAK256_BYTES |-> 0]

\* Mutant: the rounds are those of the block after block_number.
SeedRoundsOfPending(block_number) == (block_number + 1) \div EPOCH_LENGTH

\* seed_hash, line 196: rounds = block_number // EPOCH_LENGTH.
SeedRounds(block_number) == block_number \div EPOCH_LENGTH

(* ------------- src/client/r5miner/r5miner.py helpers ---------------- *)
\* ethash_r5.generate_cache(seed, block_number): the cache built from the
\* seed with the size of the block's epoch.
GenerateCache(seed, block_number) ==
  [seed |-> seed, epoch |-> block_number \div EPOCH_LENGTH]

\* generate_cache, lines 104-106 (get_cache, line 101, in main.py): one
\* 32-bit word per 4 bytes of the cache.
WordCount(c) == ChosenCacheSize(c.epoch) \div 4

\* hashimoto_light, line 182: size = len(cache) * 4.
ClientLightSize(c) == WordCount(c) * 4

\* ethash_r5.hashimoto_light(header, nonce, cache): hashimoto with the size
\* taken from the cache (len(cache) * 4, fixed by the cache's epoch).
ClientHashimotoLight(header, n, c) == HashimotoLight(c.epoch, c, header, n)

\* r5miner.py line 151: nonce += os.cpu_count().
ClientNextNonce(n, cpus) == n + cpus

\* r5miner.py lines 94-97, 110-113, 117-120: log, time.sleep(5), continue.
ClientAfterException == "ClientSleep5"
\* r5miner.py lines 148 and 153-157: break or exhaustion, then time.sleep(2).
ClientAfterSearch == "ClientSleep2"
\* r5miner.py line 89: while True.
ClientLoopStart == "ClientFetchWork"

\* r5miner.py line 78: params = [nonce_hex, mix_hex, pow_hash].
ClientSubmitParams(n, mix_digest, pow_hash) == <<n, mix_digest, pow_hash>>

Rpc(call, site, ret, params) ==
  [call |-> call, site |-> site, ret |-> ret, params |-> params]
NoRpc == Rpc("none", "none", None, <<>>)

\* What stands for the result of a library call that raised.
Raised == <<>>

\* The value of issued_at in a specification that keeps no history of issue
\* heights and submissions.
NotFollowed == 0 - 1
Followed(w) == issued_at[w] # NotFollowed

\* No call of the ethash_r5 library is followed step by step.
NoCall == [fn |-> "none"]

(* ------------------------------- Init ------------------------------- *)
\* The state after construction. `tracked` are the worker processes whose
\* state the model follows; workers share no memory, so the others only
\* show as load on the node, which is unconstrained anyway.
InitHistory(prog, cpus, n, tracked, issued) ==
  /\ program = prog
  /\ cpu_count = cpus
  /\ mainPc = "GetWork"
  /\ exit_status = None
  /\ cpu_threads = n
  /\ spawned = 0
  /\ pc = [w \in tracked |-> "NotStarted"]
  /\ work = [w \in tracked |-> None]
  /\ current_block = [w \in tracked |-> 0]
  /\ last_epoch = [w \in tracked |-> None]
  /\ cached_cache = [w \in tracked |-> None]
  /\ cache = [w \in tracked |-> None]
  /\ nonce = [w \in tracked |-> 0]
  /\ solution_found = [w \in tracked |-> FALSE]
  /\ due = [w \in tracked |-> FALSE]
  /\ lastRpc = [w \in tracked |-> NoRpc]
  /\ evalSince = [w \in tracked |-> FALSE]
  /\ visited = [w \in tracked |-> {}]
  /\ evalAgain = [w \in tracked |-> FALSE]
  /\ resolved = [w \in tracked |-> "none"]
  /\ submits = [w \in tracked |-> 0]
  /\ initial_work = "none"
  /\ issued_at = [w \in tracked |-> issued]
  /\ last_submit = [w \in tracked |-> None]

\* The same without the history of issue heights and submissions.
InitWith(prog, cpus, n, tracked) == InitHistory(prog, cpus, n, tracked, NotFollowed)

\* One worker process of a pool of n, followed against an arbitrary node.
\* main.py reads os.cpu_count() only for a configuration default, so it is
\* not varied there; the client strides by it.
Init ==
  /\ chain \in Heights
  /\ nodeWork = None
  /\ lib = NoCall
  /\ \E n \in 1..MaxWorkers : \E me \in 0..(n - 1) :
       \/ InitWith("main", n, n, {me})
       \/ \E cpus \in 1..MaxWorkers : InitWith("client", cpus, n, {me})

(* ------------------------------- main ------------------------------- *)
\* main, lines 195-200: the initial get_work; sys.exit(1) when it raises.
MainGetWork ==
  /\ mainPc = "GetWork"
  /\ \E reply \in WorkReplies(chain, nodeWork) :
       /\ initial_work' = IF Usable(reply) THEN "usable" ELSE "unusable"
       /\ mainPc' = MainAfterGetWork(GetWorkRaises(reply))
       /\ exit_status' = IF mainPc' = "Exited" THEN Some(1) ELSE exit_status
  /\ UNCHANGED <<libVars, envVars, program, cpu_count, cpu_threads, spawned, progVars,
                 lastRpc, evalSince, visited, evalAgain, resolved, submits,
                 issued_at, last_submit>>

\* main, lines 203-206: p.start() of worker i = spawned; after the last one
\* main blocks in join.
MainSpawn ==
  /\ mainPc = "Spawn"
  /\ spawned < cpu_threads
  /\ spawned' = spawned + 1
  /\ mainPc' = IF spawned + 1 = cpu_threads THEN "Join" ELSE "Spawn"
  /\ pc' = [w \in Tracked |->
               IF w # spawned THEN pc[w]
               ELSE IF program = "main" THEN LoopStart ELSE ClientLoopStart]
  /\ UNCHANGED <<libVars, envVars, program, cpu_count, exit_status, cpu_threads, work,
                 current_block,
                 last_epoch, cached_cache, cache, nonce, solution_found, due,
                 histVars>>

(* --------------------------- miner_worker --------------------------- *)
Set(f, w, v) == [f EXCEPT ![w] = v]

\* lines 124-126: get_work. A reply that makes get_work raise is dropped whole.
FetchWork(w) ==
  /\ pc[w] = "FetchWork"
  /\ \E reply \in WorkReplies(chain, nodeWork) :
       /\ lastRpc' = Set(lastRpc, w, Rpc("getWork", "FetchWork", reply, <<>>))
       /\ IF GetWorkRaises(reply)
            THEN /\ pc' = Set(pc, w, AfterException)
                 /\ UNCHANGED <<work, visited, evalAgain, issued_at>>
            ELSE /\ pc' = Set(pc, w, "ResolveCache")
                 /\ work' = Set(work, w, GetWorkValue(reply))
                 /\ visited' = Set(visited, w, {})
                 /\ evalAgain' = Set(evalAgain, w, FALSE)
                 /\ issued_at' = IF Followed(w) THEN Set(issued_at, w, chain)
                                               ELSE issued_at
  /\ evalSince' = Set(evalSince, w, FALSE)
  /\ UNCHANGED <<libVars, envVars, mainVars, current_block, last_epoch, cached_cache,
                 cache, nonce, solution_found, due, resolved, submits,
                 initial_work, last_submit>>

\* lines 127-145: get_block_number, the epoch of that height, build or reuse
\* of the cache, and the reset of the search variables.
ResolveCache(w) ==
  /\ pc[w] = "ResolveCache"
  /\ evalSince' = Set(evalSince, w, FALSE)
  /\ \E reply \in HeightReplies(chain, nodeWork) :
       /\ lastRpc' = Set(lastRpc, w, Rpc("getBlockNumber", "ResolveCache", reply, <<>>))
       /\ IF GetBlockNumberRaises(reply)
            THEN /\ pc' = Set(pc, w, AfterException)
                 /\ resolved' = Set(resolved, w, "none")
                 /\ UNCHANGED <<current_block, last_epoch, cached_cache, cache,
                                nonce, solution_found, due>>
            ELSE LET block == reply[1]
                     work_epoch == block \div EPOCH_LENGTH
                     fresh == GetCache(work[w][2], block)
                     start(cc) ==
                       /\ pc' = Set(pc, w, "Search")
                       /\ cache' = Set(cache, w, cc)
                       /\ nonce' = Set(nonce, w, w)
                       /\ solution_found' = Set(solution_found, w, FALSE)
                       /\ due' = Set(due, w, FALSE)
                 IN  /\ current_block' = Set(current_block, w, block)
                     /\ IF NeedsBuild(work_epoch, last_epoch[w])
                          THEN \/ /\ cached_cache' = Set(cached_cache, w, Some(fresh))
                                  /\ last_epoch' = Set(last_epoch, w, Some(work_epoch))
                                  /\ resolved' = Set(resolved, w, "built")
                                  /\ start(Some(fresh))
                               \/ \* get_cache raises (allocation failure)
                                  /\ pc' = Set(pc, w, AfterException)
                                  /\ resolved' = Set(resolved, w, "failed")
                                  /\ UNCHANGED <<last_epoch, cached_cache, cache,
                                                 nonce, solution_found, due>>
                          ELSE /\ resolved' = Set(resolved, w, "reused")
                               /\ UNCHANGED <<last_epoch, cached_cache>>
                               /\ start(cached_cache[w])
  /\ UNCHANGED <<libVars, envVars, mainVars, work, visited, evalAgain, submits,
                 initial_work, issued_at, last_submit>>

\* line 147 with an exhausted nonce range: the loop ends without a solution.
SearchExhausted(w) ==
  /\ pc[w] = "Search"
  /\ ~InRange(nonce[w])
  /\ pc' = Set(pc, w, AfterSearch)
  /\ UNCHANGED <<libVars, envVars, mainVars, work, current_block, last_epoch,
                 cached_cache, cache, nonce, solution_found, due, histVars>>

\* lines 149-154: the height check made when 5 seconds have passed.
SearchPoll(w) ==
  /\ pc[w] = "Search"
  /\ InRange(nonce[w])
  /\ PollDue(due[w])
  /\ evalSince' = Set(evalSince, w, FALSE)
  /\ \E reply \in HeightReplies(chain, nodeWork) :
       /\ lastRpc' = Set(lastRpc, w, Rpc("getBlockNumber", "Search", reply, <<>>))
       /\ IF GetBlockNumberRaises(reply)
            THEN pc' = Set(pc, w, AfterException) /\ due' = due
            ELSE IF Advanced(reply[1], current_block[w])
                   THEN pc' = Set(pc, w, AfterSearch) /\ due' = due
                   ELSE pc' = Set(pc, w, "Eval") /\ due' = Set(due, w, FALSE)
  /\ UNCHANGED <<libVars, envVars, mainVars, work, current_block, last_epoch,
                 cached_cache, cache, nonce, solution_found, visited, evalAgain,
                 resolved, submits, initial_work, issued_at, last_submit>>

\* lines 156-159 and 171: one nonce evaluation; the stride when it misses.
Evaluate(w) ==
  /\ \/ pc[w] = "Eval"
     \/ pc[w] = "Search" /\ InRange(nonce[w]) /\ ~PollDue(due[w])
  /\ LET out == HashimotoLight(DatasetSize(current_block[w]), cache[w][1],
                               work[w][1], nonce[w])
     IN  IF IsSolution(out[2], work[w][3])
           THEN /\ pc' = Set(pc, w, AfterFound)
                /\ nonce' = nonce
                /\ submits' = Set(submits, w, 0)
           ELSE /\ pc' = Set(pc, w, "Search")
                /\ nonce' = Set(nonce, w, NextNonce(nonce[w], cpu_threads))
                /\ submits' = submits
  /\ evalSince' = Set(evalSince, w, TRUE)
  /\ visited' = Set(visited, w, visited[w] \cup {nonce[w]})
  /\ evalAgain' = Set(evalAgain, w, evalAgain[w] \/ nonce[w] \in visited[w])
  /\ UNCHANGED <<libVars, envVars, mainVars, work, current_block, last_epoch,
                 cached_cache, cache, solution_found, due, lastRpc, resolved,
                 initial_work, issued_at, last_submit>>

\* lines 161-164: the height check made before a found solution is submitted.
PreSubmit(w) ==
  /\ pc[w] = "PreSubmit"
  /\ evalSince' = Set(evalSince, w, FALSE)
  /\ \E reply \in HeightReplies(chain, nodeWork) :
       /\ lastRpc' = Set(lastRpc, w, Rpc("getBlockNumber", "PreSubmit", reply, <<>>))
       /\ IF GetBlockNumberRaises(reply)
            THEN pc' = Set(pc, w, AfterException)
            ELSE IF Advanced(reply[1], current_block[w])
                   THEN pc' = Set(pc, w, AfterSearch)
                   ELSE pc' = Set(pc, w, "Submit")
  /\ UNCHANGED <<libVars, envVars, mainVars, work, current_block, last_epoch,
                 cached_cache, cache, nonce, solution_found, due, visited,
                 evalAgain, resolved, submits, initial_work, issued_at, last_submit>>

\* The number of hex digits of n as format(n, "x") writes it.
RECURSIVE HexLen(_)
HexLen(n) == IF n < 16 THEN 1 ELSE 1 + HexLen(n \div 16)

\* submit_work, line 89: f"0x{nonce:016x}" pads with zeros to 16 digits and
\* never truncates; the length of the string.
NonceHexLen(n) == 2 + (IF HexLen(n) < 16 THEN 16 ELSE HexLen(n))

\* submit_work, line 90: "0x" + mix_digest.hex(), two characters per byte; the
\* length of the string for a digest of the given number of bytes.
MixHexLen(digest_bytes) == 2 + 2 * digest_bytes

\* submit_work, line 91: params = [nonce_hex, pow_hash, mix_hex].
SubmitParams(n, mix_digest, pow_hash) == <<n, pow_hash, mix_digest>>

\* lines 165-170: submit_work, called once; its result is only logged.
Submit(w) ==
  /\ pc[w] = "Submit"
  /\ LET out == HashimotoLight(DatasetSize(current_block[w]), cache[w][1],
                               work[w][1], nonce[w])
     IN  \E reply \in SubmitReplies(nodeWork) :
           /\ lastRpc' = Set(lastRpc, w,
                             Rpc("submitWork", "Submit", reply,
                                 SubmitParams(nonce[w], out[1], work[w][1])))
           /\ pc' = Set(pc, w, AfterSubmit(SubmitWorkValue(reply)))
  /\ last_submit' = IF Followed(w)
                       THEN Set(last_submit, w, Some(<<work[w][1], nonce[w]>>))
                       ELSE last_submit
  /\ submits' = Set(submits, w, submits[w] + 1)
  /\ evalSince' = Set(evalSince, w, FALSE)
  /\ solution_found' = Set(solution_found, w, TRUE)
  /\ UNCHANGED <<libVars, envVars, mainVars, work, current_block, last_epoch,
                 cached_cache, cache, nonce, due, visited, evalAgain, resolved,
                 initial_work, issued_at>>

\* line 177: time.sleep(5) in the except clause.
Sleep5(w) ==
  /\ pc[w] = "Sleep5"
  /\ pc' = Set(pc, w, "Sleep2")
  /\ UNCHANGED <<libVars, envVars, mainVars, work, current_block, last_epoch,
                 cached_cache, cache, nonce, solution_found, due, histVars>>

\* line 178: time.sleep(2), then the next iteration of while True.
Sleep2(w) ==
  /\ pc[w] = "Sleep2"
  /\ pc' = Set(pc, w, LoopStart)
  /\ UNCHANGED <<libVars, envVars, mainVars, work, current_block, last_epoch,
                 cached_cache, cache, nonce, solution_found, due, histVars>>

(* ------------- miner_worker of src/client/r5miner/r5miner.py -------- *)
\* lines 91-105: get_work; on an exception sleep 5 s and start over.
ClientFetchWork(w) ==
  /\ pc[w] = "ClientFetchWork"
  /\ \E reply \in WorkReplies(chain, nodeWork) :
       /\ lastRpc' = Set(lastRpc, w, Rpc("getWork", "ClientFetchWork", reply, <<>>))
       /\ IF GetWorkRaises(reply)
            THEN /\ pc' = Set(pc, w, ClientAfterException)
                 /\ UNCHANGED <<work, visited, evalAgain, issued_at>>
            ELSE /\ pc' = Set(pc, w, "ClientResolve")
                 /\ work' = Set(work, w, GetWorkValue(reply))
                 /\ visited' = Set(visited, w, {})
                 /\ evalAgain' = Set(evalAgain, w, FALSE)
                 /\ issued_at' = IF Followed(w) THEN Set(issued_at, w, chain)
                                               ELSE issued_at
  /\ evalSince' = Set(evalSince, w, FALSE)
  /\ UNCHANGED <<libVars, envVars, mainVars, current_block, last_epoch, cached_cache,
                 cache, nonce, solution_found, due, resolved, submits,
                 initial_work, last_submit>>

\* lines 108-126: get_block_number, generate_cache for every work unit, and
\* the reset of the search variables.
ClientResolve(w) ==
  /\ pc[w] = "ClientResolve"
  /\ evalSince' = Set(evalSince, w, FALSE)
  /\ \E reply \in HeightReplies(chain, nodeWork) :
       /\ lastRpc' = Set(lastRpc, w, Rpc("getBlockNumber", "ClientResolve", reply, <<>>))
       /\ IF GetBlockNumberRaises(reply)
            THEN /\ pc' = Set(pc, w, ClientAfterException)
                 /\ resolved' = Set(resolved, w, "none")
                 /\ UNCHANGED <<current_block, cache, nonce, solution_found>>
            ELSE /\ current_block' = Set(current_block, w, reply[1])
                 /\ \/ /\ cache' = Set(cache, w, Some(GenerateCache(work[w][2], reply[1])))
                       /\ resolved' = Set(resolved, w, "built")
                       /\ nonce' = Set(nonce, w, w)
                       /\ solution_found' = Set(solution_found, w, FALSE)
                       /\ pc' = Set(pc, w, "ClientSearch")
                    \/ \* generate_cache raises (allocation failure)
                       /\ pc' = Set(pc, w, ClientAfterException)
                       /\ resolved' = Set(resolved, w, "failed")
                       /\ UNCHANGED <<cache, nonce, solution_found>>
  /\ UNCHANGED <<libVars, envVars, mainVars, work, last_epoch, cached_cache, due, visited,
                 evalAgain, submits, initial_work, issued_at, last_submit>>

\* line 129 with an exhausted nonce range.
ClientSearchExhausted(w) ==
  /\ pc[w] = "ClientSearch"
  /\ ~InRange(nonce[w])
  /\ pc' = Set(pc, w, ClientAfterSearch)
  /\ UNCHANGED <<libVars, envVars, mainVars, work, current_block, last_epoch,
                 cached_cache, cache, nonce, solution_found, due, histVars>>

\* lines 129-142 and 151: one nonce evaluation; the stride when it misses.
ClientEvaluate(w) ==
  /\ pc[w] = "ClientSearch"
  /\ InRange(nonce[w])
  /\ LET out == ClientHashimotoLight(work[w][1], nonce[w], cache[w][1])
     IN  IF IsSolution(out[2], work[w][3])
           THEN /\ pc' = Set(pc, w, "ClientSubmit")
                /\ nonce' = nonce
                /\ submits' = Set(submits, w, 0)
           ELSE /\ pc' = Set(pc, w, "ClientSearch")
                /\ nonce' = Set(nonce, w, ClientNextNonce(nonce[w], cpu_count))
                /\ submits' = submits
  /\ evalSince' = Set(evalSince, w, TRUE)
  /\ visited' = Set(visited, w, visited[w] \cup {nonce[w]})
  /\ evalAgain' = Set(evalAgain, w, evalAgain[w] \/ nonce[w] \in visited[w])
  /\ UNCHANGED <<libVars, envVars, mainVars, work, current_block, last_epoch,
                 cached_cache, cache, solution_found, due, lastRpc, resolved,
                 initial_work, issued_at, last_submit>>

\* lines 143-148: submit_work right after the discovery, then break.
ClientSubmit(w) ==
  /\ pc[w] = "ClientSubmit"
  /\ LET out == ClientHashimotoLight(work[w][1], nonce[w], cache[w][1])
     IN  \E reply \in SubmitReplies(nodeWork) :
           lastRpc' = Set(lastRpc, w,
                          Rpc("submitWork", "ClientSubmit", reply,
                              ClientSubmitParams(nonce[w], out[1], work[w][1])))
  /\ pc' = Set(pc, w, ClientAfterSearch)
  /\ last_submit' = IF Followed(w)
                       THEN Set(last_submit, w, Some(<<work[w][1], nonce[w]>>))
                       ELSE last_submit
  /\ submits' = Set(submits, w, submits[w] + 1)
  /\ evalSince' = Set(evalSince, w, FALSE)
  /\ solution_found' = Set(solution_found, w, TRUE)
  /\ UNCHANGED <<libVars, envVars, mainVars, work, current_block, last_epoch,
                 cached_cache, cache, nonce, due, visited, evalAgain, resolved,
                 initial_work, issued_at>>

\* time.sleep(5); continue.
ClientSleep5(w) ==
  /\ pc[w] = "ClientSleep5"
  /\ pc' = Set(pc, w, ClientLoopStart)
  /\ UNCHANGED <<libVars, envVars, mainVars, work, current_block, last_epoch,
                 cached_cache, cache, nonce, solution_found, due, histVars>>

\* line 157: time.sleep(2), then the next iteration of while True.
ClientSleep2(w) ==
  /\ pc[w] = "ClientSleep2"
  /\ pc' = Set(pc, w, ClientLoopStart)
  /\ UNCHANGED <<libVars, envVars, mainVars, work, current_block, last_epoch,
                 cached_cache, cache, nonce, solution_found, due, histVars>>

(* ---------------------------- environment --------------------------- *)
\* A block is added to the chain.
ChainAdvance ==
  /\ chain < MaxHeight
  /\ chain' = chain + 1
  /\ UNCHANGED <<libVars, nodeWork, mainVars, progVars, histVars>>

\* Five seconds have passed since last_check (line 149 reads the clock only
\* at the head of the search loop).
Tick(w) ==
  /\ pc[w] = "Search"
  /\ ~due[w]
  /\ due' = Set(due, w, TRUE)
  /\ UNCHANGED <<libVars, envVars, mainVars, work, current_block, last_epoch,
                 cached_cache, cache, nonce, solution_found, pc, histVars>>

Next ==
  \/ MainGetWork
  \/ MainSpawn
  \/ \E w \in Tracked : FetchWork(w)
  \/ \E w \in Tracked : ResolveCache(w)
  \/ \E w \in Tracked : SearchExhausted(w)
  \/ \E w \in Tracked : SearchPoll(w)
  \/ \E w \in Tracked : Evaluate(w)
  \/ \E w \in Tracked : PreSubmit(w)
  \/ \E w \in Tracked : Submit(w)
  \/ \E w \in Tracked : Sleep5(w)
  \/ \E w \in Tracked : Sleep2(w)
  \/ \E w \in Tracked : Tick(w)
  \/ \E w \in Tracked : ClientFetchWork(w)
  \/ \E w \in Tracked : ClientResolve(w)
  \/ \E w \in Tracked : ClientSearchExhausted(w)
  \/ \E w \in Tracked : ClientEvaluate(w)
  \/ \E w \in Tracked : ClientSubmit(w)
  \/ \E w \in Tracked : ClientSleep5(w)
  \/ \E w \in Tracked : ClientSleep2(w)
  \/ ChainAdvance

Spec == Init /\ [][Next]_vars

(* ------------------------- the whole pool --------------------------- *)
\* All cpu_threads workers side by side, against a steady node at one
\* height: the setting of the nonce partition, which is about the workers'
\* strides and not about the node.
PoolInit ==
  /\ chain = MinHeight
  /\ lib = NoCall
  /\ \E h \in Headers, t \in Targets : nodeWork = Some(<<h, t>>)
  /\ \E n \in 1..MaxWorkers : InitWith("main", n, n, 0..(n - 1))

PoolNext ==
  \/ MainGetWork
  \/ MainSpawn
  \/ \E w \in Tracked : FetchWork(w)
  \/ \E w \in Tracked : ResolveCache(w)
  \/ \E w \in Tracked : SearchExhausted(w)
  \/ \E w \in Tracked : SearchPoll(w)
  \/ \E w \in Tracked : Evaluate(w)
  \/ \E w \in Tracked : PreSubmit(w)
  \/ \E w \in Tracked : Submit(w)
  \/ \E w \in Tracked : Sleep5(w)
  \/ \E w \in Tracked : Sleep2(w)
  \/ \E w \in Tracked : Tick(w)

PoolSpec == PoolInit /\ [][PoolNext]_vars

\* The same for the client miner: the -cpu workers side by side on a machine
\* of cpu_count cores.
ClientPoolInit ==
  /\ chain = MinHeight
  /\ lib = NoCall
  /\ \E h \in Headers, t \in Targets : nodeWork = Some(<<h, t>>)
  /\ \E n \in 1..MaxWorkers, cpus \in 1..MaxWorkers :
       InitWith("client", cpus, n, 0..(n - 1))

ClientPoolNext ==
  \/ MainGetWork
  \/ MainSpawn
  \/ \E w \in Tracked : ClientFetchWork(w)
  \/ \E w \in Tracked : ClientResolve(w)
  \/ \E w \in Tracked : ClientSearchExhausted(w)
  \/ \E w \in Tracked : ClientEvaluate(w)
  \/ \E w \in Tracked : ClientSubmit(w)
  \/ \E w \in Tracked : ClientSleep5(w)
  \/ \E w \in Tracked : ClientSleep2(w)

ClientPoolSpec == ClientPoolInit /\ [][ClientPoolNext]_vars

\* One worker of src/r5miner/main.py, as in Spec, with the history of the
\* run kept: the height at which each work unit was issued and the latest
\* submission.
HistoryInit ==
  /\ chain \in Heights
  /\ nodeWork = None
  /\ lib = NoCall
  /\ \E n \in 1..MaxWorkers : \E me \in 0..(n - 1) :
       InitHistory("main", n, n, {me}, 0)

HistoryNext ==
  \/ MainGetWork
  \/ MainSpawn
  \/ \E w \in Tracked : FetchWork(w)
  \/ \E w \in Tracked : ResolveCache(w)
  \/ \E w \in Tracked : SearchExhausted(w)
  \/ \E w \in Tracked : SearchPoll(w)
  \/ \E w \in Tracked : Evaluate(w)
  \/ \E w \in Tracked : PreSubmit(w)
  \/ \E w \in Tracked : Submit(w)
  \/ \E w \in Tracked : Sleep5(w)
  \/ \E w \in Tracked : Sleep2(w)
  \/ \E w \in Tracked : Tick(w)
  \/ ChainAdvance

HistorySpec == HistoryInit /\ [][HistoryNext]_vars

(* -------------------- ethash_r5, call by call ----------------------- *)
\* The specifications below follow calls of the library on their own: no
\* miner runs, and lib holds the call.
MinersIdle ==
  /\ chain = MinHeight
  /\ nodeWork = None
  /\ InitWith("client", 1, 1, {})

MinersStayIdle == UNCHANGED <<envVars, mainVars, progVars, histVars>>

\* generate_cache, lines 82-86, called for a block of each epoch in turn, as
\* a miner calls it along the chain: the size chosen for the epoch, and the
\* size that was chosen for the epoch before.
SizeCall(epoch, previous_size) ==
  [fn |-> "cache_size", epoch |-> epoch,
   cache_size |-> ChosenCacheSize(epoch), previous_size |-> previous_size]

SizeInit ==
  /\ MinersIdle
  /\ lib = SizeCall(0, 0)

SizeOfNextEpoch ==
  /\ lib.fn = "cache_size"
  /\ lib.epoch < MAX_EPOCH
  /\ lib' = SizeCall(lib.epoch + 1, lib.cache_size)
  /\ MinersStayIdle

SizeNext == SizeOfNextEpoch

SizeSpec == SizeInit /\ [][SizeNext]_vars

\* generate_cache(seed, block_number), one row per step. The size is drawn
\* from the multiples of HASH_BYTES up to MaxRows rows, in place of the sizes
\* of ChosenCacheSize (16 MB and more); seeds are 32 bytes.
Seeds      == {[k \in 1..KECCAK256_BYTES |-> (b + k * d) % ByteMod] : b \in Byte, d \in 0..1}
CacheBytes == {HASH_BYTES * r : r \in 1..MaxRows}

CacheInit ==
  /\ MinersIdle
  /\ \E seed \in Seeds, cache_size \in CacheBytes :
       lib = [fn |-> "generate_cache", at |-> "seed", seed |-> seed,
              cache_size |-> cache_size,
              cache_bytes |-> [k \in 1..cache_size |-> 0],
              offset |-> 0, r |-> 0, j |-> 0, cache |-> None,
              round_start |-> <<>>, writes |-> 0]

\* lines 87-89: cache_bytes = bytearray(cache_size); the first row.
CacheSeedRow ==
  /\ lib.fn = "generate_cache" /\ lib.at = "seed"
  /\ lib' = [lib EXCEPT !.cache_bytes = SetSlice(@, 0, Keccak512(lib.seed)),
                        !.offset = HASH_BYTES,
                        !.at = "fill"]
  /\ MinersStayIdle

\* lines 90-92: one pass of the fill loop.
CacheFillRow ==
  /\ lib.fn = "generate_cache" /\ lib.at = "fill"
  /\ lib.offset < lib.cache_size
  /\ lib' = [lib EXCEPT !.cache_bytes =
                          SetSlice(@, lib.offset,
                                   Keccak512(PrevRow(lib.cache_bytes, lib.offset))),
                        !.offset = @ + HASH_BYTES]
  /\ MinersStayIdle

\* line 90: range(HASH_BYTES, cache_size, HASH_BYTES) is used up; line 93.
CacheFillDone ==
  /\ lib.fn = "generate_cache" /\ lib.at = "fill"
  /\ lib.offset >= lib.cache_size
  /\ lib' = [lib EXCEPT !.at = "scramble", !.r = 0, !.j = 0,
                        !.round_start = lib.cache_bytes]
  /\ MinersStayIdle

\* lines 94-102: one row of a scramble round. round_start keeps the bytes
\* the round began with and writes counts the rows rewritten (history).
CacheScrambleRow ==
  /\ lib.fn = "generate_cache" /\ lib.at = "scramble"
  /\ lib.r < CACHE_ROUNDS
  /\ LET rows == lib.cache_size \div HASH_BYTES
         after == ScrambleRow(lib.cache_bytes, rows, lib.j)
     IN  lib' = [lib EXCEPT !.cache_bytes = after,
                            !.j = IF lib.j + 1 < rows THEN @ + 1 ELSE 0,
                            !.r = IF lib.j + 1 < rows THEN @ ELSE @ + 1,
                            !.round_start = IF lib.j + 1 < rows THEN @ ELSE after,
                            !.writes = @ + 1]
  /\ MinersStayIdle

\* lines 103-107: the words of the cache are returned.
CacheReturn ==
  /\ lib.fn = "generate_cache" /\ lib.at = "scramble"
  /\ lib.r >= CACHE_ROUNDS
  /\ lib' = [lib EXCEPT !.cache = Some(ToWords(lib.cache_bytes)),
                        !.at = "returned"]
  /\ MinersStayIdle

CacheNext ==
  \/ CacheSeedRow
  \/ CacheFillRow
  \/ CacheFillDone
  \/ CacheScrambleRow
  \/ CacheReturn

CacheSpec == CacheInit /\ [][CacheNext]_vars

\* generate_dataset_item(cache, index), one loop pass per step. The caches
\* are lists of words of 1..MaxRows rows, some with a few words past the last
\* whole row; the indices are all the words.
CacheWords(len, a) == [k \in 1..len |-> (a * k * k + 3 * k + a) % WordMod]
Caches ==
  {CacheWords(HASH_WORDS * r + x, a) : r \in 1..MaxRows, x \in {0, 5}, a \in 0..1}

ItemInit ==
  /\ MinersIdle
  /\ \E c \in Caches, index \in 0..(WordMod - 1) :
       lib = [fn |-> "generate_dataset_item", at |-> "start", cache |-> c,
              index |-> index, mix_int |-> <<>>, i |-> 0, reads |-> {},
              result |-> None]

\* A read of the 16 words at off: inside the cache, or an IndexError.
ReadsInside(cache_list, off) == off + HASH_WORDS <= Len(cache_list)

\* lines 114-122: rows, base, the first mix.
ItemFirstMix ==
  /\ lib.fn = "generate_dataset_item" /\ lib.at = "start"
  /\ LET base == ItemBase(lib.index, ItemRows(lib.cache))
     IN  IF ReadsInside(lib.cache, base)
               /\ Xor(lib.cache[base + 1], lib.index) < WordMod
           THEN lib' = [lib EXCEPT !.mix_int = FirstMix(lib.cache, lib.index),
                                   !.reads = @ \cup RowPositions(base),
                                   !.at = "parents"]
           ELSE lib' = [lib EXCEPT !.reads = @ \cup RowPositions(base),
                                   !.at = "raised"]
  /\ MinersStayIdle

\* lines 123-127: one pass of the parent loop.
ItemParent ==
  /\ lib.fn = "generate_dataset_item" /\ lib.at = "parents"
  /\ lib.i < MaxParents
  /\ LET parent_offset ==
           ParentOf(lib.index, lib.i, lib.mix_int, ItemRows(lib.cache)) * HASH_WORDS
     IN  IF ReadsInside(lib.cache, parent_offset)
           THEN lib' = [lib EXCEPT !.mix_int =
                                     ParentStep(lib.cache, lib.index, lib.i, @),
                                   !.reads = @ \cup RowPositions(parent_offset),
                                   !.i = @ + 1]
           ELSE lib' = [lib EXCEPT !.reads = @ \cup RowPositions(parent_offset),
                                   !.at = "raised"]
  /\ MinersStayIdle

\* lines 128-129: the mix as bytes (int_to_le raises on a word of more than
\* 4 bytes), hashed.
ItemReturn ==
  /\ lib.fn = "generate_dataset_item" /\ lib.at = "parents"
  /\ lib.i >= MaxParents
  /\ IF \A k \in 1..Len(lib.mix_int) : lib.mix_int[k] < WordMod
       THEN lib' = [lib EXCEPT !.result = Some(Keccak512(WordsToBytes(lib.mix_int))),
                               !.at = "returned"]
       ELSE lib' = [lib EXCEPT !.at = "raised"]
  /\ MinersStayIdle

ItemNext ==
  \/ ItemFirstMix
  \/ ItemParent
  \/ ItemReturn

ItemSpec == ItemInit /\ [][ItemNext]_vars

\* hashimoto_light(header, nonce, cache) and hashimoto(header, nonce, size,
\* lookup into the materialised dataset) side by side on the same inputs,
\* one access of the loop per step. A run that raised has mix = None.
LibHeaders == {[k \in 1..KECCAK256_BYTES |-> (b + k) % ByteMod] : b \in 0..1}
LightCaches ==
  {CacheWords(HASH_WORDS * r, a) : r \in 1..(2 * MaxRows + 1), a \in 0..1}

HashimotoInit ==
  /\ MinersIdle
  /\ \E header \in LibHeaders, n \in 0..MaxNonce, c \in LightCaches :
       lib = [fn |-> "hashimoto", at |-> "start", header |-> header,
              nonce |-> n, cache |-> c, size |-> LightSize(c),
              dataset |-> Dataset(c, LightSize(c)),
              seed |-> <<>>, i |-> 0, light |-> None, full |-> None,
              indices |-> {}, extra_light |-> None, extra_full |-> None,
              round |-> 0, out_light |-> None, out_full |-> None]

\* lines 143-151: rows, the seed, the initial mix, in both runs.
HashimotoStart ==
  /\ lib.fn = "hashimoto" /\ lib.at = "start"
  /\ LET seed == HashimotoSeed(lib.header, lib.nonce)
     IN  lib' = [lib EXCEPT !.seed = seed,
                            !.light = Some(InitialMix(seed)),
                            !.full = Some(InitialMix(seed)),
                            !.at = "access"]
  /\ MinersStayIdle

\* A pass of the access loop raises: the run has raised before, or rows = 0
\* (ZeroDivisionError at line 153).
PassRaises(run, size) == run = None \/ HashimotoRows(size) = 0

\* lines 153-156: the index pass i of the run hands to lookup for chunk j.
PageIndex(run, i, seed, size, j) ==
  LookupIndex(AccessParent(i, LeToInt(Slice(seed, 0, 4)), run[1], HashimotoRows(size)),
              j)

\* lines 154-159: the mix after a pass whose lookups returned item0 and
\* item1, or None when a lookup failed.
AccessStep(run, item0, item1) ==
  IF item0 = None \/ item1 = None THEN None
  ELSE Some(MixPage(run[1], <<item0[1], item1[1]>>))

\* The indices the pass hands to lookup.
AccessIndices(run, i, seed, size) ==
  IF PassRaises(run, size) THEN {}
  ELSE {PageIndex(run, i, seed, size, 0), PageIndex(run, i, seed, size, 1)}

HashimotoAccess ==
  /\ lib.fn = "hashimoto" /\ lib.at = "access"
  /\ lib.i < LOOP_ACCESSES
  /\ lib' = [lib EXCEPT
       !.light = IF PassRaises(@, lib.size) THEN None
                 ELSE AccessStep(@,
                        LightLookup(lib.cache, PageIndex(@, lib.i, lib.seed, lib.size, 0)),
                        LightLookup(lib.cache, PageIndex(@, lib.i, lib.seed, lib.size, 1))),
       !.full = IF PassRaises(@, lib.size) THEN None
                ELSE AccessStep(@,
                       FullLookup(lib.dataset, PageIndex(@, lib.i, lib.seed, lib.size, 0)),
                       FullLookup(lib.dataset, PageIndex(@, lib.i, lib.seed, lib.size, 1))),
       !.indices = @ \cup AccessIndices(lib.full, lib.i, lib.seed, lib.size),
       !.i = @ + 1]
  /\ MinersStayIdle

\* lines 160-165: the mix collapsed to the digest bytes, the buffer of the
\* extra rounds; Raised for a run that raised.
HashimotoCollapse ==
  /\ lib.fn = "hashimoto" /\ lib.at = "access"
  /\ lib.i >= LOOP_ACCESSES
  /\ lib' = [lib EXCEPT !.extra_light = IF lib.light = None THEN Some(Raised)
                                        ELSE Some(Collapse(lib.light[1])),
                        !.extra_full = IF lib.full = None THEN Some(Raised)
                                       ELSE Some(Collapse(lib.full[1])),
                        !.round = 0,
                        !.at = "extra"]
  /\ MinersStayIdle

\* lines 166-172: one extra round.
HashimotoExtraRound ==
  /\ lib.fn = "hashimoto" /\ lib.at = "extra"
  /\ lib.round < EXTRA_ROUNDS
  /\ lib' = [lib EXCEPT !.extra_light = IF @ = Some(Raised) THEN @
                                        ELSE Some(ExtraRound(@[1], lib.seed)),
                        !.extra_full = IF @ = Some(Raised) THEN @
                                       ELSE Some(ExtraRound(@[1], lib.seed)),
                        !.round = @ + 1]
  /\ MinersStayIdle

\* lines 173-175: final_digest, final_hash.
HashimotoReturn ==
  /\ lib.fn = "hashimoto" /\ lib.at = "extra"
  /\ lib.round >= EXTRA_ROUNDS
  /\ lib' = [lib EXCEPT !.out_light = IF lib.extra_light = Some(Raised) THEN Some(Raised)
                                      ELSE Some(<<lib.extra_light[1],
                                                  Keccak256(lib.seed \o lib.extra_light[1])>>),
                        !.out_full = IF lib.extra_full = Some(Raised) THEN Some(Raised)
                                     ELSE Some(<<lib.extra_full[1],
                                                 Keccak256(lib.seed \o lib.extra_full[1])>>),
                        !.at = "returned"]
  /\ MinersStayIdle

HashimotoNext ==
  \/ HashimotoStart
  \/ HashimotoAccess
  \/ HashimotoCollapse
  \/ HashimotoExtraRound
  \/ HashimotoReturn

HashimotoSpec == HashimotoInit /\ [][HashimotoNext]_vars

\* seed_hash(block_number), one hash per step, for heights at the start, in
\* the middle and at the end of the epochs 0..MaxSeedEpochs.
SeedHeights ==
  {e * EPOCH_LENGTH + d : e \in 0..MaxSeedEpochs,
                          d \in {0, 1, EPOCH_LENGTH \div 2, EPOCH_LENGTH - 1}}

SeedInit ==
  /\ MinersIdle
  /\ \E block_number \in SeedHeights :
       lib = [fn |-> "seed_hash", at |-> "start", block_number |-> block_number,
              seed |-> ZeroSeed, rounds |-> 0, done |-> 0]

\* lines 193-195: the zero seed is returned for a height of epoch 0.
SeedOfFirstEpoch ==
  /\ lib.fn = "seed_hash" /\ lib.at = "start"
  /\ lib.block_number < EPOCH_LENGTH
  /\ lib' = [lib EXCEPT !.at = "returned"]
  /\ MinersStayIdle

\* line 196: rounds.
SeedCountRounds ==
  /\ lib.fn = "seed_hash" /\ lib.at = "start"
  /\ lib.block_number >= EPOCH_LENGTH
  /\ lib' = [lib EXCEPT !.rounds = SeedRounds(lib.block_number), !.at = "loop"]
  /\ MinersStayIdle

\* lines 197-198: one pass of the loop.
SeedRound ==
  /\ lib.fn = "seed_hash" /\ lib.at = "loop"
  /\ lib.done < lib.rounds
  /\ lib' = [lib EXCEPT !.seed = Keccak256(@), !.done = @ + 1]
  /\ MinersStayIdle

\* line 199: return seed.
SeedReturn ==
  /\ lib.fn = "seed_hash" /\ lib.at = "loop"
  /\ lib.done >= lib.rounds
  /\ lib' = [lib EXCEPT !.at = "returned"]
  /\ MinersStayIdle

SeedNext ==
  \/ SeedOfFirstEpoch
  \/ SeedCountRounds
  \/ SeedRound
  \/ SeedReturn

SeedSpec == SeedInit /\ [][SeedNext]_vars

(* ============================== claims ============================== *)
Started(w)  == pc[w] # "NotStarted"
Asleep(w)   == pc[w] \in {"Sleep5", "Sleep2", "ClientSleep5", "ClientSleep2"}
FinalHashOf(w, n) ==
  IF program = "main"
    THEN HashimotoLight(DatasetSize(current_block[w]), cache[w][1], work[w][1], n)[2]
    ELSE ClientHashimotoLight(work[w][1], n, cache[w][1])[2]

\* The worker's latest RPC call is a height check at `site` that returned a
\* height above the work unit's.
StaleAt(w, site) ==
  /\ lastRpc[w].call = "getBlockNumber"
  /\ lastRpc[w].site = site
  /\ lastRpc[w].ret # None
  /\ lastRpc[w].ret[1] > current_block[w]

\* In this step worker w makes no RPC call, or its call is get_work.
NextCallIsGetWork(w) ==
  \/ lastRpc'[w] = lastRpc[w] /\ submits'[w] = submits[w]
  \/ lastRpc'[w].call = "getWork"

\* This step evaluates no nonce for worker w.
NoEvaluation(w) ==
  /\ visited'[w] \subseteq visited[w]
  /\ evalAgain'[w] => evalAgain[w]
  /\ evalSince'[w] => evalSince[w]

\* C1 (staleness): once a height poll made during Search has returned a height
\* greater than the work unit's, the worker has left the search (it is in the
\* sleep before the next iteration, or back at get_work), it evaluates no
\* further nonce of that work unit, it does not call submitWork, and its next
\* RPC call is get_work.
C1_StalePollAbandons ==
  [][\A w \in Tracked :
       StaleAt(w, "Search")' =>
         /\ pc'[w] \in {"Sleep2", "FetchWork"}
         /\ StaleAt(w, "Search") => NextCallIsGetWork(w) /\ NoEvaluation(w)]_vars

\* C1 witness: a poll in mid-search (nonces already evaluated) came back stale
\* and the worker is back at get_work.
C1_Witness ==
  \E w \in Tracked :
    StaleAt(w, "Search") /\ visited[w] # {} /\ pc[w] = "FetchWork"

\* C2 (freshness before submission), for the worker of src/r5miner/main.py:
\* a submitWork call is made only when the
\* worker's previous RPC call is the height check that follows the discovery,
\* it answered with a height not above the work unit's, and no nonce was
\* evaluated since; after a check that answered with a greater height the next
\* call is get_work, so the solution is dropped.
C2_FreshBeforeSubmit ==
  [][\A w \in Tracked :
       program = "main" =>
       /\ (lastRpc'[w].call = "submitWork" /\ submits'[w] # submits[w]) =>
            /\ lastRpc[w].call = "getBlockNumber"
            /\ lastRpc[w].site = "PreSubmit"
            /\ lastRpc[w].ret # None
            /\ lastRpc[w].ret[1] <= current_block[w]
            /\ ~evalSince[w]
       /\ StaleAt(w, "PreSubmit") => NextCallIsGetWork(w) /\ NoEvaluation(w)]_vars

\* C2 witness: a solution was submitted after a height check that answered
\* exactly the work unit's height.
C2_Witness ==
  \E w \in Tracked :
    /\ program = "main"
    /\ lastRpc[w].call = "submitWork"
    /\ submits[w] = 1
    /\ chain = current_block[w]

\* C2 witness of the discarding branch is C2's second conjunct at work: a
\* solution found, the check stale, the worker back at get_work.
C2_DiscardReached ==
  \E w \in Tracked : StaleAt(w, "PreSubmit") /\ pc[w] = "FetchWork"

\* C3 (solution validity), for both miners: the nonce of a submitWork call
\* has a final hash strictly below the target of the work unit, and an
\* evaluation whose final hash is the target or above makes no call and moves
\* the counter to the next nonce of the stride, back at the head of the search
\* loop.
C3_OnlyValidSubmitted ==
  [][\A w \in Tracked :
       /\ lastRpc'[w].call = "submitWork" =>
            /\ IF program = "main"
                 THEN HashimotoLight(DatasetSize(current_block'[w]), cache'[w][1],
                                     work'[w][1], lastRpc'[w].params[1])[2]
                        < work'[w][3]
                 ELSE ClientHashimotoLight(work'[w][1], lastRpc'[w].params[1],
                                           cache'[w][1])[2] < work'[w][3]
            /\ lastRpc'[w].params[1] = nonce'[w]
       /\ (pc[w] \in {"Search", "Eval", "ClientSearch"} /\ evalSince'[w]
             /\ visited'[w] # visited[w]
             /\ FinalHashOf(w, nonce[w]) >= work[w][3]) =>
            /\ pc'[w] = (IF program = "main" THEN "Search" ELSE "ClientSearch")
            /\ nonce'[w] = nonce[w] + (IF program = "main" THEN cpu_threads
                                                          ELSE cpu_count)
            /\ lastRpc'[w] = lastRpc[w]]_vars

\* C3 witness: a nonce was submitted after a nonce whose final hash equals the
\* target was passed over.
C3_Witness ==
  \E w \in Tracked :
    /\ lastRpc[w].call = "submitWork"
    /\ \E n \in visited[w] : FinalHashOf(w, n) = work[w][3]

\* C3, second witness: the same in the client miner.
C3_ClientReached ==
  \E w \in Tracked :
    /\ program = "client"
    /\ lastRpc[w].call = "submitWork"
    /\ \E n \in visited[w] : FinalHashOf(w, n) = work[w][3]

\* C4 (worker partitioning): every worker of a pool of cpu_threads has
\* evaluated, after k evaluations of a work unit, exactly the nonces
\* id, id + cpu_threads, ..., id + (k-1) * cpu_threads, none of them twice; no
\* nonce is evaluated by two workers; and when every worker has made k
\* evaluations the nonces evaluated are exactly 0 .. cpu_threads * k - 1.
C4_Partition ==
  LET N == cpu_threads
      steps(w) == Cardinality(visited[w])
  IN  /\ \A w \in Tracked :
           /\ ~evalAgain[w]
           /\ visited[w] = {w + N * i : i \in 0..(steps(w) - 1)}
      /\ \A w, v \in Tracked : w # v => visited[w] \cap visited[v] = {}
      /\ \A k \in 0..MaxNonce :
           (Tracked = 0..(N - 1) /\ \A w \in Tracked : steps(w) = k) =>
             UNION {visited[w] : w \in Tracked} = 0..(N * k - 1)

\* C4 witness: two workers with two evaluations each of the same work unit.
C4_Witness ==
  /\ cpu_threads = 2
  /\ Tracked = {0, 1}
  /\ \A w \in Tracked : Cardinality(visited[w]) = 2 /\ work[w] = work[0]

\* C5 (no submission retry): at most one submitWork call is made for a found
\* solution, and after a submitWork call, whatever the node answered, the
\* worker's next RPC call is get_work.
C5_SubmitOnce ==
  [][\A w \in Tracked :
       /\ submits'[w] <= 1
       /\ lastRpc[w].call = "submitWork" => NextCallIsGetWork(w)]_vars

\* C5 witness: a submission that failed (no reply from the node) and the
\* worker back at get_work.
C5_Witness ==
  \E w \in Tracked :
    /\ lastRpc[w].call = "submitWork"
    /\ lastRpc[w].ret = None
    /\ pc[w] = "FetchWork"

\* C5, second witness: a submission the node rejected.
C5_RejectedReached ==
  \E w \in Tracked :
    /\ lastRpc[w].call = "submitWork"
    /\ lastRpc[w].ret = Some(FALSE)
    /\ pc[w] = "FetchWork"

\* The step is worker w's cache resolution and the height check answered.
Resolves(w) ==
  /\ pc[w] = "ResolveCache"
  /\ pc'[w] # "ResolveCache"
  /\ lastRpc'[w].ret # None

\* C6 (cache reuse): the cache resolution invokes the cache builder exactly
\* when the epoch of the height read for the work unit differs from the
\* last-used epoch or there is none; with the epoch unchanged the cached cache
\* is left as it is and is the one the search uses.
C6_BuildIffEpochChanged ==
  [][\A w \in Tracked :
       Resolves(w) =>
         LET epoch == lastRpc'[w].ret[1] \div EPOCH_LENGTH
             changed == last_epoch[w] = None \/ last_epoch[w][1] # epoch
         IN  /\ resolved'[w] \in {"built", "failed"} <=> changed
             /\ resolved'[w] = "reused" <=> ~changed
             /\ ~changed =>
                  /\ cached_cache'[w] = cached_cache[w]
                  /\ last_epoch'[w] = last_epoch[w]
                  /\ cache'[w] = cached_cache[w]
                  /\ cached_cache[w] # None
                  /\ pc'[w] = "Search"]_vars

\* C6 witness: a cache built at one height is reused at another height of the
\* same epoch.
C6_Witness ==
  \E w \in Tracked :
    /\ resolved[w] = "reused"
    /\ pc[w] = "Search"
    /\ current_block[w] = EPOCH_LENGTH + 1

\* The step is worker w's get_work and the call failed: transport or RPC
\* error, empty result, or fewer than 3 result elements.
FetchFails(w) ==
  /\ pc[w] = "FetchWork"
  /\ pc'[w] # "FetchWork"
  /\ lastRpc'[w].ret = None \/ Len(lastRpc'[w].ret[1]) < 3

\* C7 (get_work failure): a failed get_work leaves the work unit, the cache
\* pair and the nonce counter untouched, evaluates and submits nothing, and
\* puts the worker into the cool-down; from the cool-down the worker goes on
\* to the pause before the next iteration and from there to get_work; the
\* worker stays in the loop.
C7_FetchFailureCoolsDown ==
  [][\A w \in Tracked :
       /\ FetchFails(w) =>
            /\ pc'[w] = "Sleep5"
            /\ work'[w] = work[w]
            /\ cached_cache'[w] = cached_cache[w] /\ last_epoch'[w] = last_epoch[w]
            /\ cache'[w] = cache[w] /\ nonce'[w] = nonce[w]
            /\ resolved'[w] = resolved[w]
            /\ submits'[w] = submits[w]
            /\ NoEvaluation(w)
       /\ pc[w] = "Sleep5" => pc'[w] \in {"Sleep5", "Sleep2"} /\ lastRpc'[w] = lastRpc[w]
       /\ pc[w] = "Sleep2" => pc'[w] \in {"Sleep2", "FetchWork"} /\ lastRpc'[w] = lastRpc[w]]_vars

\* C7 witness: a get_work reply of two elements, and the worker at get_work
\* again after the cool-down.
C7_Witness ==
  \E w \in Tracked :
    /\ lastRpc[w].call = "getWork"
    /\ lastRpc[w].ret # None
    /\ Len(lastRpc[w].ret[1]) = 2
    /\ pc[w] = "FetchWork"

\* The worker's latest RPC call is a height check at `site` that failed.
FailedAt(w, site) ==
  /\ lastRpc[w].call = "getBlockNumber"
  /\ lastRpc[w].site = site
  /\ lastRpc[w].ret = None

C9_NoWorkNoWorkers ==
  /\ initial_work = "unusable" =>
       /\ mainPc = "Exited"
       /\ exit_status # None /\ exit_status[1] # 0
       /\ spawned = 0
       /\ \A w \in Tracked : ~Started(w)
  /\ (spawned > 0 \/ \E w \in Tracked : Started(w)) => initial_work = "usable"
  /\ mainPc = "Exited" => initial_work = "unusable"

\* C9 witness: main has exited after a failed initial get_work.
C9_Witness ==
  /\ mainPc = "Exited"
  /\ initial_work = "unusable"
  /\ exit_status = Some(1)

\* Any step of worker w.
WorkerStep(w) ==
  \/ FetchWork(w) \/ ResolveCache(w) \/ SearchExhausted(w) \/ SearchPoll(w)
  \/ Evaluate(w) \/ PreSubmit(w) \/ Submit(w) \/ Sleep5(w) \/ Sleep2(w)
  \/ ClientFetchWork(w) \/ ClientResolve(w) \/ ClientSearchExhausted(w)
  \/ ClientEvaluate(w) \/ ClientSubmit(w) \/ ClientSleep5(w) \/ ClientSleep2(w)

Searching(w) ==
  pc[w] \in {"Search", "Eval", "PreSubmit", "Submit", "ClientSearch", "ClientSubmit"}

\* C10 (no terminal state), for both miners:
\* a started worker always has a step to take, and
\* whenever it leaves the search (solution submitted or discarded, staleness,
\* RPC failure, nonce range exhausted) it is in one of the two sleeps, which
\* lead to get_work and nowhere else.
C10_NoTerminalState ==
  [][\A w \in Tracked :
       /\ Started(w)' => (ENABLED WorkerStep(w))'
       /\ (Searching(w) /\ ~Searching(w)') => Asleep(w)'
       /\ pc[w] = "Sleep5" => pc'[w] \in {"Sleep5", "Sleep2"}
       /\ pc[w] = "Sleep2" => pc'[w] \in {"Sleep2", "FetchWork"}
       /\ pc[w] \in {"ClientSleep5", "ClientSleep2"} =>
            pc'[w] \in {pc[w], "ClientFetchWork"}]_vars

\* C10 witness: the nonce counter ran past max_nonce without a solution and
\* the worker is back at get_work.
C10_Witness ==
  \E w \in Tracked :
    /\ pc[w] = "FetchWork"
    /\ ~InRange(nonce[w])
    /\ Cardinality(visited[w]) > 1

\* C10, second witness: the same in the client miner.
C10_ClientReached ==
  \E w \in Tracked :
    /\ pc[w] = "ClientFetchWork"
    /\ ~InRange(nonce[w])
    /\ Cardinality(visited[w]) > 1

\* This step evaluates a nonce for worker w.
Evaluates(w) == nonce[w] \in visited'[w] /\ evalSince'[w] /\ ~NoEvaluation(w)

\* This step is a height poll of the search loop that found the work current.
PollsCurrent(w) ==
  /\ pc[w] = "Search"
  /\ lastRpc'[w].call = "getBlockNumber" /\ lastRpc'[w].site = "Search"
  /\ lastRpc'[w].ret # None /\ lastRpc'[w].ret[1] <= current_block[w]
  /\ pc'[w] = "Eval"

\* C11 (staleness polling period), for the worker of src/r5miner/main.py: with
\* 5 seconds elapsed since last_check at the head of the search loop, the
\* worker's step is a getBlockNumber call and not a nonce evaluation; a nonce
\* is evaluated from the loop head only with the timer not expired, or right
\* after a poll that found the work current; and the timer is reset only by
\* such a poll or by the start of a search.
C11_PollBeforeEvaluate ==
  [][\A w \in Tracked :
       program = "main" =>
         /\ (pc[w] = "Search" /\ due[w] /\ InRange(nonce[w]) /\ pc'[w] # pc[w]) =>
              /\ lastRpc'[w].call = "getBlockNumber"
              /\ lastRpc'[w].site = "Search"
              /\ ~Evaluates(w)
         /\ Evaluates(w) =>
              \/ pc[w] = "Search" /\ ~due[w]
              \/ pc[w] = "Eval" /\ ~due[w] /\ lastRpc[w].site = "Search"
                   /\ lastRpc[w].ret # None /\ lastRpc[w].ret[1] <= current_block[w]
         /\ (due[w] /\ ~due'[w]) =>
              \/ PollsCurrent(w)
              \/ pc[w] = "ResolveCache" /\ pc'[w] = "Search"
         /\ (pc[w] = "Search" /\ due[w] /\ pc'[w] \in {"Sleep2", "Sleep5"}) => due'[w]]_vars

\* C11 witness: in mid-search the timer expired, the poll found the work
\* current, and the timer is reset with the next nonce about to be evaluated.
C11_Witness ==
  \E w \in Tracked :
    /\ program = "main"
    /\ pc[w] = "Eval"
    /\ visited[w] # {}
    /\ ~due[w]
    /\ lastRpc[w].site = "Search" /\ lastRpc[w].ret = Some(current_block[w])

\* Worker w of src/r5miner/main.py resolves a work unit at the epoch boundary,
\* having searched its previous work unit at the height just below: both
\* searches got a cache.
CrossesBoundary(w) ==
  /\ program = "main"
  /\ pc[w] = "ResolveCache"
  /\ pc'[w] = "Search"
  /\ cache[w] # None
  /\ resolved[w] \in {"built", "reused"}
  /\ current_block[w] = EPOCH_LENGTH - 1
  /\ current_block'[w] = EPOCH_LENGTH

\* C12 as stated (epoch boundary): of two consecutive work units at heights
\* EPOCH_LENGTH - 1 and EPOCH_LENGTH the second is searched with a newly built
\* cache, of another epoch, another cache size and a seed of another keccak256
\* iteration count than the first.
C12_EpochBoundary ==
  [][\A w \in Tracked :
       CrossesBoundary(w) =>
         /\ resolved'[w] = "built"
         /\ cache'[w][1].epoch # cache[w][1].epoch
         /\ ChosenCacheSize(cache'[w][1].epoch) # ChosenCacheSize(cache[w][1].epoch)
         /\ cache'[w][1].seed # cache[w][1].seed]_vars

\* C13 as stated (submitWork request shape): every submitWork call carries
\* (nonce, mixDigest, headerHash) in this order, the nonce written as 0x and
\* 16 hex characters, the mix digest as 0x and 64 hex characters.
C13_SubmitShape ==
  \A w \in Tracked :
    (lastRpc[w].call = "submitWork" /\ pc[w] \in {"Sleep2", "ClientSleep2"}) =>
      LET mix == IF program = "main"
                   THEN HashimotoLight(DatasetSize(current_block[w]), cache[w][1],
                                       work[w][1], nonce[w])[1]
                   ELSE ClientHashimotoLight(work[w][1], nonce[w], cache[w][1])[1]
      IN  /\ lastRpc[w].params = <<nonce[w], mix, work[w][1]>>
          /\ NonceHexLen(lastRpc[w].params[1]) = 2 + 16
          /\ MixHexLen(KECCAK256_BYTES) = 2 + 64

\* C13: a submitWork call of src/r5miner/main.py whose second parameter is
\* the header hash and whose third is a mix digest different from it.
C13_HeaderSecondReached ==
  \E w \in Tracked :
    /\ program = "main"
    /\ lastRpc[w].call = "submitWork"
    /\ lastRpc[w].params[2] = work[w][1]
    /\ lastRpc[w].params[3] # work[w][1]

\* The dataset byte size of worker w's hashimoto evaluations.
LightSizeOf(w) ==
  IF program = "main"
    THEN MainLightSize(DatasetSize(current_block[w]), cache[w][1])
    ELSE ClientLightSize(cache[w][1])

C19_ClientPartition ==
  LET all == UNION {visited[w] : w \in Tracked}
      steps(w) == Cardinality(visited[w])
  IN  /\ \A w \in Tracked : ~evalAgain[w]
      /\ \A w, v \in Tracked : w # v => visited[w] \cap visited[v] = {}
      /\ \A k \in 1..MaxNonce :
           (\A w \in Tracked : steps(w) = k) =>
             \A n \in all : \A m \in 0..n : m \in all

\* C19: two client workers on a machine of one core have both evaluated
\* nonce 1 of the same work unit.
C19_OverlapReached ==
  /\ cpu_threads = 2 /\ cpu_count = 1
  /\ Tracked = {0, 1}
  /\ work[0] = work[1]
  /\ 1 \in visited[0] \cap visited[1]

\* C19: one client worker on a machine of two cores has passed over nonce 1.
C19_GapReached ==
  /\ cpu_threads = 1 /\ cpu_count = 2
  /\ visited[0] = {0, 2}

\* Worker w has detected staleness: its latest RPC call is a height check, of
\* the search loop or before a submission, that answered above the work unit's
\* height.
Discarding(w) == StaleAt(w, "Search") \/ StaleAt(w, "PreSubmit")

\* C20 (discard has no side effects), for the worker of src/r5miner/main.py:
\* the step in which a height check detects staleness, and every step up to
\* the worker's next get_work call, makes no submitWork call and leaves the
\* worker's (last_epoch, cached_cache) pair, its work unit, its cache and its
\* nonce counter as they were; the worker only moves to the sleep that ends
\* the iteration and from there to get_work.
C20_DiscardNoSideEffects ==
  [][\A w \in Tracked :
       (program = "main" /\ Discarding(w)') =>
         /\ lastRpc'[w].call # "submitWork"
         /\ submits'[w] = submits[w]
         /\ last_epoch'[w] = last_epoch[w]
         /\ cached_cache'[w] = cached_cache[w]
         /\ cache'[w] = cache[w]
         /\ work'[w] = work[w]
         /\ nonce'[w] = nonce[w]
         /\ IF Discarding(w)
              THEN pc'[w] = pc[w] \/ (pc[w] = "Sleep2" /\ pc'[w] = "FetchWork")
              ELSE pc[w] \in {"Search", "PreSubmit"} /\ pc'[w] = "Sleep2"]_vars

\* C20 witness: a worker holding a cached pair dropped a found solution after
\* a stale check, made no submitWork call for it, and is back at get_work
\* with the pair it had.
C20_Witness ==
  \E w \in Tracked :
    /\ program = "main"
    /\ StaleAt(w, "PreSubmit")
    /\ pc[w] = "FetchWork"
    /\ submits[w] = 0
    /\ cached_cache[w] # None
    /\ last_epoch[w] # None

\* C16 (cache size invariant): for every epoch of 0..MAX_EPOCH the size
\* generate_cache chooses is a multiple of 64 (HASH_BYTES), and from epoch 1
\* on it is strictly greater than the size chosen for the epoch before, the
\* first epoch past the table included.
C16_CacheSizeInvariant ==
  lib.fn = "cache_size" =>
    /\ lib.epoch \in 0..MAX_EPOCH
    /\ lib.cache_size % 64 = 0
    /\ lib.epoch > 0 => lib.cache_size > lib.previous_size

\* C16 witness: the first epoch the table does not cover, its size computed by
\* the formula and compared with the table's last entry.
C16_Witness ==
  /\ lib.fn = "cache_size"
  /\ lib.epoch = Len(CACHE_SIZES)
  /\ lib.cache_size = CalcCacheSize(lib.epoch)
  /\ lib.previous_size = CACHE_SIZES[Len(CACHE_SIZES)]

\* C16 witness of the far end: the size of epoch MAX_EPOCH.
C16_LastEpochReached ==
  lib.fn = "cache_size" /\ lib.epoch = MAX_EPOCH

\* Row i (from 0) of a byte array of HASH_BYTES-byte rows.
RowOf(bytes, i) == Slice(bytes, i * HASH_BYTES, (i + 1) * HASH_BYTES)

\* The rows below `upto` are a hash chain that starts from the seed.
ChainUpTo(bytes, seed, upto) ==
  \A i \in 0..(upto - 1) :
    RowOf(bytes, i) = Keccak512(IF i = 0 THEN seed ELSE RowOf(bytes, i - 1))

\* C18 (cache seeding): while generate_cache fills the cache and until its
\* first scramble step, the rows written so far are keccak_512(seed) followed
\* by the keccak_512 of the row before each; when the fill loop is over the
\* byte array has exactly cache_size bytes and all its cache_size / 64 rows
\* are written, so the pre-scramble cache is that chain and nothing else.
C18_CacheSeeding ==
  (lib.fn = "generate_cache" /\ lib.at \in {"fill", "scramble"}
     /\ lib.r = 0 /\ lib.j = 0) =>
    /\ Len(lib.cache_bytes) = lib.cache_size
    /\ lib.offset % HASH_BYTES = 0
    /\ ChainUpTo(lib.cache_bytes, lib.seed, lib.offset \div HASH_BYTES)
    /\ lib.at = "scramble" => lib.offset = lib.cache_size

\* C18 witness: a cache of three rows or more is filled, no scramble step
\* taken yet, and its three first rows differ from one another.
C18_Witness ==
  /\ lib.fn = "generate_cache"
  /\ lib.at = "scramble" /\ lib.r = 0 /\ lib.j = 0
  /\ lib.cache_size >= 3 * HASH_BYTES
  /\ RowOf(lib.cache_bytes, 0) # RowOf(lib.cache_bytes, 1)
  /\ RowOf(lib.cache_bytes, 1) # RowOf(lib.cache_bytes, 2)
  /\ RowOf(lib.cache_bytes, 0) # RowOf(lib.cache_bytes, 2)

\* C17 (dataset item): for every index that fits a word and every cache of
\* one 16-word row or more, generate_dataset_item raises nothing, every cache
\* position it reads is inside the cache, and what it returns is 64 bytes,
\* that is 16 words each below the word size; the returned value is that of
\* the function as the light lookup computes it.
C17_ItemShape ==
  lib.fn = "generate_dataset_item" =>
    /\ lib.at # "raised"
    /\ lib.reads \subseteq 0..(Len(lib.cache) - 1)
    /\ lib.at = "returned" =>
         /\ Len(lib.result[1]) = 64
         /\ \A k \in 1..64 : lib.result[1][k] \in Byte
         /\ Len(ToWords(lib.result[1])) = 16
         /\ \A k \in 1..16 : ToWords(lib.result[1])[k] < WordMod
         /\ lib.result[1] = GenerateDatasetItem(lib.cache, lib.index)

\* C17 witness: an item was returned for an index beyond the row count, from
\* a cache of several rows whose length is not a multiple of 16, after reads
\* of more than one row.
C17_Witness ==
  /\ lib.fn = "generate_dataset_item"
  /\ lib.at = "returned"
  /\ lib.index >= ItemRows(lib.cache)
  /\ ItemRows(lib.cache) >= 2
  /\ Len(lib.cache) % HASH_WORDS # 0
  /\ Cardinality(lib.reads) > HASH_WORDS

\* C14 (light/full equivalence): on the same header, nonce and cache, with
\* size = len(cache) * 4, the run of hashimoto whose lookup computes items
\* from the cache and the run whose lookup reads the materialised dataset of
\* size / 64 items go through the same mix after every access and return the
\* same (mixDigest, finalHash); every index the loop looks up is an item of
\* that dataset, and neither run raises unless the size is below one page,
\* where both raise.
C14_LightEqualsFull ==
  lib.fn = "hashimoto" =>
    /\ lib.light = lib.full
    /\ lib.indices \subseteq 0..(Len(lib.dataset) - 1)
    /\ (lib.light = None /\ lib.at # "start") => HashimotoRows(lib.size) = 0
    /\ lib.extra_light = lib.extra_full
    /\ lib.at = "returned" =>
         /\ lib.out_light = lib.out_full
         /\ lib.out_light # None
         /\ HashimotoRows(lib.size) > 0 =>
              /\ Len(lib.out_light[1][1]) = KECCAK256_BYTES
              /\ Len(lib.out_light[1][2]) = KECCAK256_BYTES

\* C14 witness: both runs returned a result, having looked up items of
\* more than one page of a dataset of several pages.
C14_Witness ==
  /\ lib.fn = "hashimoto"
  /\ lib.at = "returned"
  /\ lib.out_light # Some(Raised)
  /\ lib.out_light = lib.out_full
  /\ HashimotoRows(lib.size) >= 2
  /\ Cardinality(lib.indices) >= 4

\* The (last_epoch, cached_cache) pair of worker w is consistent: both unset,
\* or both set with the held cache built for last_epoch.
PairConsistent(w) ==
  /\ last_epoch[w] = None <=> cached_cache[w] = None
  /\ cached_cache[w] # None => cached_cache[w][1].epoch = last_epoch[w][1]

\* This step of worker w is a failure: get_work, get_block_number or
\* get_cache raised and the except clause took over.
FailureStep(w) ==
  /\ pc[w] \in {"FetchWork", "ResolveCache", "Search", "PreSubmit"}
  /\ pc'[w] = "Sleep5"

\* C21 (atomic cache replacement), for the worker of src/r5miner/main.py: in
\* every reachable state the (last_epoch, cached_cache) pair is consistent,
\* and a step in which get_work, get_block_number or the cache build fails
\* leaves the pair as it was.
C21_AtomicCacheReplacement ==
  /\ [](\A w \in Tracked : program = "main" => PairConsistent(w))
  /\ [][\A w \in Tracked :
          (program = "main" /\ FailureStep(w)) =>
            /\ last_epoch'[w] = last_epoch[w]
            /\ cached_cache'[w] = cached_cache[w]]_vars

\* C21 witness: a worker that holds the cache of epoch 0 failed to build the
\* cache of epoch 1 and still holds the pair of epoch 0.
C21_Witness ==
  \E w \in Tracked :
    /\ program = "main"
    /\ resolved[w] = "failed"
    /\ current_block[w] \div EPOCH_LENGTH = 1
    /\ last_epoch[w] = Some(0)
    /\ cached_cache[w] # None
    /\ cached_cache[w][1].epoch = 0

\* keccak_256 applied `times` times to data.
RECURSIVE Hash256Times(_, _)
Hash256Times(data, times) ==
  IF times = 0 THEN data ELSE Keccak256(Hash256Times(data, times - 1))

\* C22 (seed hash): what seed_hash(h) returns is keccak_256 applied exactly
\* h // EPOCH_LENGTH times to 32 zero bytes: the zero seed below
\* EPOCH_LENGTH, the same seed for the first, the middle and the last height
\* of an epoch, and one more hash than for the epoch before.
C22_SeedHash ==
  (lib.fn = "seed_hash" /\ lib.at = "returned") =>
    LET epoch == lib.block_number \div EPOCH_LENGTH
    IN  /\ lib.done = epoch
        /\ lib.seed = Hash256Times(ZeroSeed, epoch)
        /\ lib.block_number < EPOCH_LENGTH => lib.seed = ZeroSeed
        /\ epoch > 0 => lib.seed = Keccak256(Hash256Times(ZeroSeed, epoch - 1))
        /\ Len(lib.seed) = KECCAK256_BYTES

\* C22 witness: the seed of the last height of an epoch past the first was
\* returned after two passes or more, and it is neither the zero seed nor the
\* seed of epoch 1.
C22_Witness ==
  /\ lib.fn = "seed_hash" /\ lib.at = "returned"
  /\ lib.block_number % EPOCH_LENGTH = EPOCH_LENGTH - 1
  /\ lib.done >= 2
  /\ lib.seed # ZeroSeed
  /\ lib.seed # Keccak256(ZeroSeed)

\* n is a prime number (for n below 2112 * 2112, which covers the row counts
\* of all epochs up to MAX_EPOCH).
IsPrime(n) ==
  /\ n > 1
  /\ n < 2112 * 2112
  /\ \A d \in 2..2111 : d * d > n \/ n % d # 0

\* C23 (prime row count): for every epoch from len(CACHE_SIZES) to MAX_EPOCH
\* the size generate_cache chooses is the value of calc_cache_size and its
\* row count, size / 64, is a prime number.
C23_PrimeRows ==
  (lib.fn = "cache_size" /\ lib.epoch >= Len(CACHE_SIZES)) =>
    /\ lib.cache_size = CalcCacheSize(lib.epoch)
    /\ IsPrime(lib.cache_size \div HASH_BYTES)

\* C23, the tabulated range for comparison: the last size of the table has
\* a prime row count.
C23_TabulatedPrimeReached ==
  /\ lib.fn = "cache_size"
  /\ lib.epoch = Len(CACHE_SIZES) - 1
  /\ IsPrime(lib.cache_size \div HASH_BYTES)

\* The run of hashimoto_light has collapsed its mix and not raised.
Collapsed == lib.fn = "hashimoto" /\ lib.at \in {"extra", "returned"}
               /\ lib.extra_light # Some(Raised)

\* C24 (collapse to 4 words): after the accesses the 32-word mix
\* is collapsed into 4 words, a digest seed of 16 bytes, and the first extra
\* round runs over that 16-byte buffer.
C24_CollapseToFourWords ==
  (Collapsed /\ lib.at = "extra" /\ lib.round = 0) =>
    /\ Len(lib.light[1]) = 32
    /\ Len(ToWords(lib.extra_light[1])) = 4
    /\ Len(lib.extra_light[1]) = 16

\* C24, what lines 161-172 compute: after the 64 accesses the 32-word mix
\* is collapsed into 8 words, word c being the FNV fold of the c-th group of
\* 4 consecutive words; that is a digest seed of 32 bytes, every extra round
\* runs over a buffer of 32 bytes (8 chunks), and the result is that of the
\* function as a whole.
C24_CollapseToEightWords ==
  Collapsed =>
    /\ lib.i = LOOP_ACCESSES
    /\ Len(lib.light[1]) = 32
    /\ Len(lib.extra_light[1]) = 32
    /\ (lib.at = "extra" /\ lib.round = 0) =>
         /\ Len(ToWords(lib.extra_light[1])) = 8
         /\ \A c \in 1..8 :
              ToWords(lib.extra_light[1])[c] =
                Fnv(Fnv(Fnv(lib.light[1][4 * c - 3], lib.light[1][4 * c - 2]),
                        lib.light[1][4 * c - 1]), lib.light[1][4 * c])
    /\ lib.at = "returned" =>
         lib.out_light[1] = HashimotoResult(lib.light[1], lib.seed)

\* C24 witness: a run has collapsed its mix, whose groups do not all fold to
\* the same word, and has gone through the four extra rounds.
C24_Witness ==
  /\ Collapsed
  /\ lib.at = "extra"
  /\ lib.round = EXTRA_ROUNDS
  /\ \E c, d \in 1..8 :
       Fnv(Fnv(Fnv(lib.light[1][4 * c - 3], lib.light[1][4 * c - 2]),
               lib.light[1][4 * c - 1]), lib.light[1][4 * c])
         # Fnv(Fnv(Fnv(lib.light[1][4 * d - 3], lib.light[1][4 * d - 2]),
                   lib.light[1][4 * d - 1]), lib.light[1][4 * d])

\* The bytewise XOR of two rows.
XorRows(a, b) == [k \in 1..HASH_BYTES |-> Xor(a[k], b[k])]

\* The first 32-bit word of row i of the bytes, little-endian.
Word0(bytes, i) == LeToInt(SubSeq(RowOf(bytes, i), 1, 4))

\* A step of generate_cache that rewrites a row.
ScrambleStep ==
  /\ lib.fn = "generate_cache"
  /\ lib.at = "scramble"
  /\ lib'.writes = lib.writes + 1

\* C25 (scramble ordering): every step that rewrites a row rewrites row j of
\* round r, with (r, j) running through 0..2 and 0..R-1 in increasing order,
\* and sets it to hash512(row[(j-1+R) mod R] XOR row[word0(row j) mod R])
\* where all three rows are read from the bytes as they are at that moment;
\* no other row changes; and the function returns after exactly 3 rounds,
\* that is 3 * R rewrites.
C25_ScrambleOrdering ==
  /\ [][ScrambleStep =>
          LET R   == lib.cache_size \div HASH_BYTES
              j   == lib.j
              now == lib.cache_bytes
          IN  /\ lib.writes = lib.r * R + j
              /\ lib.r < 3 /\ j < R
              /\ RowOf(lib'.cache_bytes, j) =
                   Keccak512(XorRows(RowOf(now, (j - 1 + R) % R),
                                     RowOf(now, Word0(now, j) % R)))
              /\ \A i \in 0..(R - 1) :
                   i # j => RowOf(lib'.cache_bytes, i) = RowOf(now, i)
              /\ Len(lib'.cache_bytes) = lib.cache_size]_vars
  /\ []((lib.fn = "generate_cache" /\ lib.at = "returned") =>
          /\ lib.r = 3
          /\ lib.writes = 3 * (lib.cache_size \div HASH_BYTES)
          /\ lib.cache = Some(ToWords(lib.cache_bytes)))

\* C25 witness: in some round of a cache of three rows, row 1 has just been
\* rewritten from the already rewritten row 0, and its value differs from the
\* one a snapshot taken at the start of the round would have given.
C25_Witness ==
  /\ lib.fn = "generate_cache" /\ lib.at = "scramble"
  /\ lib.cache_size = 3 * HASH_BYTES
  /\ lib.j = 2
  /\ LET R      == 3
         xorIdx == Word0(lib.round_start, 1) % R
         xorRow == IF xorIdx = 0 THEN RowOf(lib.cache_bytes, 0)
                   ELSE RowOf(lib.round_start, xorIdx)
     IN  /\ RowOf(lib.cache_bytes, 0) # RowOf(lib.round_start, 0)
         /\ RowOf(lib.cache_bytes, 1) =
              Keccak512(XorRows(RowOf(lib.cache_bytes, 0), xorRow))
         /\ RowOf(lib.cache_bytes, 1) #
              Keccak512(XorRows(RowOf(lib.round_start, 0),
                                RowOf(lib.round_start, xorIdx)))

\* The worker's latest RPC call is a height check of the search loop or
\* before a submission that answered above the height at which the work unit
\* was issued.
AdvancedSinceIssue(w) ==
  /\ lastRpc[w].call = "getBlockNumber"
  /\ lastRpc[w].site \in {"Search", "PreSubmit"}
  /\ lastRpc[w].ret # None
  /\ lastRpc[w].ret[1] > issued_at[w]

\* C26 (work/height association), for the worker of src/r5miner/main.py:
\* while a work unit is searched or submitted, the height the worker holds
\* for it (current_block) is the chain height at which get_work returned it;
\* and once a height check has answered above that height the worker has
\* left the search and goes back to get_work without a submitWork call.
C26_WorkHeightAssociation ==
  \A w \in Tracked :
    (program = "main" /\ Followed(w)) =>
      /\ pc[w] \in {"Search", "Eval", "PreSubmit", "Submit"} =>
           current_block[w] = issued_at[w]
      /\ AdvancedSinceIssue(w) => pc[w] \in {"Sleep2", "FetchWork"}
      /\ (lastRpc[w].call = "submitWork" /\ current_block[w] > issued_at[w]) =>
           submits[w] = 0

\* C26, the failure at its end: a solution was submitted for a work unit
\* although the chain had advanced between get_work and the height read that
\* followed it.
C26_StaleSubmitted ==
  \E w \in Tracked :
    /\ program = "main" /\ Followed(w)
    /\ lastRpc[w].call = "submitWork"
    /\ submits[w] = 1
    /\ current_block[w] > issued_at[w]

\* C27 (cache/seed agreement), for the worker of src/r5miner/main.py: a step
\* that evaluates a nonce uses a cache built from the seed hash of the work
\* unit being searched, and a search that starts on a reused cache starts on
\* one built from that seed hash.
C27_CacheSeedAgreement ==
  [][\A w \in Tracked :
       program = "main" =>
         /\ Evaluates(w) => cache[w][1].seed = work[w][2]
         /\ (pc[w] = "ResolveCache" /\ pc'[w] = "Search" /\ resolved'[w] = "reused") =>
              cache'[w][1].seed = work'[w][2]]_vars

\* C27, the failure: the worker has evaluated nonces of a work unit whose
\* seed hash is that of epoch 1 on a cache reused from an earlier unit and
\* built from the seed hash of epoch 0.
C27_ReusedAcrossSeeds ==
  \E w \in Tracked :
    /\ program = "main"
    /\ resolved[w] = "reused"
    /\ visited[w] # {}
    /\ work[w][2] = 1
    /\ cache[w][1].seed = 0
    /\ cache[w][1].epoch = current_block[w] \div EPOCH_LENGTH

\* C28 (no duplicate submission across work fetches), for the worker of
\* src/r5miner/main.py: a call of submitWork never carries the (headerHash,
\* nonce) pair of the worker's preceding call of submitWork, whatever that
\* call answered and whatever work unit getWork returned after it.
C28_NoDuplicateSubmission ==
  [][\A w \in Tracked :
       (program = "main" /\ Followed(w) /\ pc[w] = "Submit" /\ pc'[w] # "Submit") =>
         last_submit[w] # Some(<<work[w][1], nonce[w]>>)]_vars

\* C28, the failure: after a submission the worker has fetched the same work
\* unit again, restarted the nonce counter, found the same nonce and passed
\* the height check: it is about to call submitWork with the same pair.
C28_SamePairAgain ==
  \E w \in Tracked :
    /\ program = "main"
    /\ Followed(w)
    /\ pc[w] = "Submit"
    /\ lastRpc[w].call = "getBlockNumber"
    /\ last_submit[w] = Some(<<work[w][1], nonce[w]>>)

\* C29 (a found solution is never lost to an RPC error), for the worker of
\* src/r5miner/main.py: the step that follows the observation of
\* finalHash < target either leads to the call of submitWork for that nonce
\* or discards the solution on a height reply greater than the work unit's
\* height; a failed getBlockNumber does not drop the solution.
C29_SolutionNotLost ==
  [][\A w \in Tracked :
       (program = "main" /\ pc[w] = "PreSubmit" /\ pc'[w] # "PreSubmit") =>
         \/ pc'[w] = "Submit" /\ nonce'[w] = nonce[w] /\ work'[w] = work[w]
         \/ /\ lastRpc'[w].ret # None
            /\ lastRpc'[w].ret[1] > current_block[w]]_vars

\* C29, the failure: the height check made for a found solution raised, the
\* worker is in the except clause and no submitWork was called for the
\* solution.
C29_SolutionDropped ==
  \E w \in Tracked :
    /\ program = "main"
    /\ pc[w] = "Sleep5"
    /\ lastRpc[w].call = "getBlockNumber"
    /\ lastRpc[w].site = "PreSubmit"
    /\ lastRpc[w].ret = None
    /\ submits[w] = 0
    /\ IsSolution(HashimotoLight(DatasetSize(current_block[w]), cache[w][1],
                                 work[w][1], nonce[w])[2], work[w][3])

\* C30 (lookup index bounds): every index hashimoto hands to lookup is
\* 2 * parent or 2 * parent + 1 for a parent below size / 128 and so lies in
\* [0, size / 64); with size = 4 * len(cache) every index is below the row
\* count len(cache) / 16 of the cache, the reduction index % rows of
\* generate_dataset_item leaves it as it is, and two distinct indices never
\* read the same first row of the cache.
C30_LookupIndexBounds ==
  lib.fn = "hashimoto" =>
    LET rows == ItemRows(lib.cache)
    IN  /\ lib.size = LightSize(lib.cache)
        /\ \A index \in lib.indices :
             /\ \E parent \in 0..(HashimotoRows(lib.size) - 1), j \in 0..1 :
                  index = 2 * parent + j
             /\ index >= 0
             /\ index < lib.size \div HASH_BYTES
             /\ index < rows
             /\ ItemBase(index, rows) = index * HASH_WORDS
        /\ \A a, b \in lib.indices :
             a # b => ItemBase(a, rows) # ItemBase(b, rows)

\* C30 witness: a run over a cache of several pages has returned, having
\* looked up the first item and the last item of the last page.
C30_Witness ==
  /\ lib.fn = "hashimoto"
  /\ lib.at = "returned"
  /\ lib.out_light # Some(Raised)
  /\ HashimotoRows(lib.size) >= 2
  /\ 0 \in lib.indices
  /\ (2 * HashimotoRows(lib.size) - 1) \in lib.indices

====
